---- MODULE Spec2Model ----
(***************************************************************************)
(* Model of the recording processor of zypys.zadrix.                       *)
(*                                                                         *)
(* Three batch executors are modelled, each as the loop its source runs:   *)
(*   "compress"      RecordProcessor.compress   (zypys/zadrix/recproc.py)  *)
(*   "extract"       RecordProcessor.extract    (zypys/zadrix/recproc.py)  *)
(*   "compress_all"  compress_all           (zypys/zadrix/recproc_new.py)  *)
(* The transcoder (ffmpeg, started by subprocess.run) is an external       *)
(* process: it may open its output file, then exits with status 0 or 1.    *)
(* Ctrl-C (KeyboardInterrupt) may arrive at every position of the loop.    *)
(*                                                                         *)
(* Further sections model the settings synchroniser (zypys/wow/sync.py,    *)
(* sync_old.py) and the key presser threads (zypys/wow/afk.py,             *)
(* scroller.py), each under a specification of its own.                    *)
(***************************************************************************)
EXTENDS Integers, Sequences, FiniteSets, TLC

\* ------------------------------------------------------------------ bounds
\* Largest number of scanned recordings.
MaxRecordings == 2
\* Largest number of lines of extract.txt.
MaxDirectives == 2
\* Largest value of the maxnum argument (-n on the command line).
MaxNum == 2
\* Largest recording index (the leading digits of a file name).
MaxIndex == 2

\* Titles a line of extract.txt may carry.
Titles == {"a", "b"}

\* ------------------------------------------------------------------ state
VARIABLES
    prog,        \* which executor runs: "compress", "extract", "compress_all"
    indices,     \* self.indices / get_recordings(): indices in scan order
    data,        \* rows of extract.txt: [index, title]  (extract only)
    maxnum,      \* the maxnum argument as passed by the caller
    targetdir,   \* target directory: file |-> "absent" | "partial" | "complete"
    pc,          \* position of the executor
    i,           \* loop counter (0-based, as in the source)
    new_file,    \* local variable new_file; NoFile while not in locals()
    opened,      \* the running transcoder has opened (created) its output
    exc,         \* exception that left the method, "none" otherwise
    \* history (observation only, never read by an action's guard)
    targetdir0,  \* target directory when the run began
    startDir,    \* target directory at the start of each loop iteration
    started,     \* jobs whose "Start ..." line was logged, in order
    invoked,     \* transcoder invocations: [job, existed] in order
    results,     \* transcoder exits: [job, rc] in order
    intr         \* the interrupt that was handled ([at, job, dir]: position,
                 \* loop counter and target directory when it arrived)

\* The batch executors' state.
execVars == <<prog, indices, data, maxnum, targetdir, pc, i, new_file, opened, exc,
              targetdir0, startDir, started, invoked, results, intr>>

\* State of the file recognition functions (is_recording, is_timelapse,
\* get_index of recproc_new.py), used by the classifier specification.
VARIABLES
    name,        \* file.name, a sequence of characters
    onDisk,      \* file.is_file(): the path exists and is a regular file
    asked,       \* the queries that have returned
    ans          \* their results: [rec, tl, idx]

nameVars == <<name, onDisk, asked, ans>>

\* Everything but the executors' state.
\* The scanner of a source directory (RecordProcessor.__init__, get_recordings):
\* scandir is the directory's entries in the order the file system enumerates
\* them, scanpos the number of entries already read; fnames, indexlens,
\* timelapses and index_maxlen are the fields of RecordProcessor (self.files
\* holds the same names as self.fnames with the directory in front of them),
\* recordings is the list get_recordings returns, directive the (index, title)
\* of the extract directive a name is built for. srcExists tells whether the
\* source directory exists.
VARIABLES
    scandir, scanner, scanpc, scanpos, fnames, indexlens, timelapses,
    index_maxlen, recordings, directive, srcExists

scanVars == <<scandir, scanner, scanpc, scanpos, fnames, indexlens, timelapses,
              index_maxlen, recordings, directive, srcExists>>

\* One run of main(): mainpc is the phase it is in; srcHasTxt and srcData are
\* the source directory's extract.txt (present or not, its lines); targetTxt
\* is the extract.txt of the target directory ("absent", "old" for a file of
\* an earlier run, "copy" for the copy made in this run); targetTl are the
\* timelapses the target directory holds, tlCopied those copied in this run;
\* compressInvoked keeps the invocations of the compression phase.
VARIABLES mainpc, srcHasTxt, srcData, targetTxt, targetTl, tlCopied, compressInvoked

mainVars == <<mainpc, srcHasTxt, srcData, targetTxt, targetTl, tlCopied, compressInvoked>>

\* The lines of extract.txt as csv.reader returns them: lineform[k] tells
\* whether line k has its four fields with an integer in the first ("ok"),
\* has fewer than four fields ("short") or has a first field that is no
\* integer ("nonint").
VARIABLE lineform

parseVars == <<lineform>>

\* What each call of recproc_new.compress gave back to its caller, with the
\* exit status of the transcoder it ran.
VARIABLE returned

retVars == <<returned>>

\* One line of extract.txt on its way to an output name: the text of the line,
\* the fields csv.reader makes of it, the values extract takes from them and
\* the file name it builds.
VARIABLES txtline, fields, parsed, new_fname, linepc

lineVars == <<txtline, fields, parsed, new_fname, linepc>>

\* zypys.wow.sync and zypys.wow.sync_old: the game path with its settings
\* directories, the backup archive, the archive restore makes of the settings
\* it is about to replace, and the position of sync with what it chose.
\*   gameDirs[d]   "absent", "prev" (the settings in place when sync began) or
\*                 "restored" (extracted from the backup archive)
\*   dirMtime[d]   newest modification time under directory d
\*   backupAt      "absent", "cloud" (the archive in place when sync began),
\*                 "new" (made from the settings by this run) or "empty" (an
\*                 archive without entries)
\*   backupOld     the file <stem>_old<suffix> next to the backup archive
\*   safety        the file <stem>_old<suffix> inside the game path: "absent",
\*                 "stale" (left by an earlier run), "prev" (holds the settings
\*                 that were in place) or "empty"
\*   proposed      the actions shown in the "I am going to ..." prompt
\*   executed      the actions whose function was called
\*   settings0     the directories that held settings when sync began
VARIABLES syncProg, syncpc, gameExists, gameDirs, dirMtime, backupAt, backupMtime,
          backupOld, safety, has7z, default_action, answer, action, proposed,
          executed, syncret, settings0

syncVars == <<syncProg, syncpc, gameExists, gameDirs, dirMtime, backupAt, backupMtime,
              backupOld, safety, has7z, default_action, answer, action, proposed,
              executed, syncret, settings0>>

\* zypys.wow.afk and zypys.wow.scroller: the presser thread's fields (mode is
\* ScrollerThread.state in scroller.py), its position in run, the keys the
\* listener holds as pressed, whether the listener still runs, the foreground
\* window, and the messages posted to windows (each with the value stop had
\* when it was posted).
VARIABLES app, mode, hwnd, stop, ppc, pressed, listening, fg, posts

keyVars == <<app, mode, hwnd, stop, ppc, pressed, listening, fg, posts>>

wowVars == <<syncVars, keyVars>>

extVars == <<retVars, lineVars, wowVars>>

auxVars == <<nameVars, scanVars, parseVars, mainVars, extVars>>

vars == <<execVars, auxVars>>

NoFile == <<>>
NoIntr == [at |-> "none", job |-> -1, dir |-> <<>>]

\* ------------------------------------------------------------ file naming
\* os.path.join(self.targetdir, fname): file names are unique in the source
\* directory, so the output of the k-th scanned recording is its own file.
CompressOut(k) == <<"rec", k>>

\* 'clips_%s_%s.mov' % (fullindex_str, title): the name is a function of the
\* directive's index and title only.
ExtractOut(index, title) == <<"clips", index, title>>

\* Number of scanned recordings (self.num, len(in_files)).
num == Len(indices)

\* self.indices.index(index): position of the first recording with that
\* index, 0 when list.index raises ValueError.
RECURSIVE IndexOfFrom(_, _, _)
IndexOfFrom(s, x, k) ==
    IF k > Len(s) THEN 0
    ELSE IF s[k] = x THEN k
    ELSE IndexOfFrom(s, x, k + 1)

\* A lookup that takes the first recording when none has the index.
IndexOfOrFirst(s, x) == IF IndexOfFrom(s, x, 1) = 0 THEN 1 ELSE IndexOfFrom(s, x, 1)

\* A lookup that takes the last recording of that index.
IndexOfLast(s, x) ==
    IF \E k \in 1..Len(s) : s[k] = x
    THEN CHOOSE k \in 1..Len(s) : s[k] = x /\ \A l \in (k + 1)..Len(s) : s[l] # x
    ELSE 0

IndexOf(s, x) == IndexOfFrom(s, x, 1)

\* Number of jobs the loop iterates over.
NumJobs == IF prog = "extract" THEN Len(data) ELSE num

\* Output path of job j (0-based); NoFile for a directive whose index
\* resolves to no recording.
OutOf(j) ==
    IF prog = "extract"
    THEN IF IndexOf(indices, data[j + 1].index) = 0
         THEN NoFile
         ELSE ExtractOut(data[j + 1].index, data[j + 1].title)
    ELSE CompressOut(j + 1)

\* if maxnum == 0: maxnum = self.num
CompressMaxnum == IF maxnum = 0 THEN num ELSE maxnum

\* if maxnum == 0: maxnum = len(data)
ExtractMaxnum == IF maxnum = 0 THEN Len(data) ELSE maxnum

\* if maxnum == 0: maxnum = len(in_files)
CompressAllMaxnum == IF maxnum = 0 THEN num ELSE maxnum

\* os.path.isfile(new_file)
isfile(dir, f) == dir[f] # "absent"

\* os.remove(new_file) on a file that exists.
os_remove_noop(dir, f) == dir

os_remove(dir, f) == [dir EXCEPT ![f] = "absent"]

\* out_file.unlink(missing_ok=True)
unlink_missing_ok(dir, f) == [dir EXCEPT ![f] = "absent"]

\* subprocess.run(cmd, capture_output=True, text=True) has no check=True:
\* it returns to the statement after it whatever the exit status is.
subprocess_run_check(rc) == IF rc = 0 THEN "post" ELSE "raised"

subprocess_run_returns(rc) == "post"

\* A call that starts the child and goes on without waiting for it.
subprocess_popen == "post"

\* subprocess.run(cmd, ...) starts the child and waits until it has exited:
\* the caller stays in the call.
subprocess_run_waits == "run"

\* The file recognition state while no query is modelled.
\* Nothing outside the record processor has run.
\* sync is not running.
SyncIdle ==
    /\ syncProg = "none"
    /\ syncpc = "idle"
    /\ gameExists = FALSE
    /\ gameDirs = <<>>
    /\ dirMtime = <<>>
    /\ backupAt = "absent"
    /\ backupMtime = 0
    /\ backupOld = "absent"
    /\ safety = "absent"
    /\ has7z = FALSE
    /\ default_action = "none"
    /\ answer = "unasked"
    /\ action = "none"
    /\ proposed = <<>>
    /\ executed = <<>>
    /\ syncret = -1
    /\ settings0 = {}

\* No presser thread exists.
KeyIdle ==
    /\ app = "none"
    /\ mode = "none"
    /\ hwnd = 0
    /\ stop = FALSE
    /\ ppc = [at |-> "idle", k |-> 0]
    /\ pressed = {}
    /\ listening = FALSE
    /\ fg = 0
    /\ posts = <<>>

WowIdle == SyncIdle /\ KeyIdle

LineIdle ==
    /\ txtline = <<>>
    /\ fields = <<>>
    /\ parsed = <<>>
    /\ new_fname = <<>>
    /\ linepc = "idle"

ExtIdle ==
    /\ WowIdle
    /\ returned = <<>>
    /\ txtline = <<>>
    /\ fields = <<>>
    /\ parsed = <<>>
    /\ new_fname = <<>>
    /\ linepc = "idle"

NameIdle ==
    /\ name = <<>>
    /\ onDisk = FALSE
    /\ asked = {}
    /\ ans = [rec |-> FALSE, tl |-> FALSE, idx |-> 0]

\* No directory is being scanned.
ScanIdle ==
    /\ scandir = <<>>
    /\ scanner = "none"
    /\ scanpc = "idle"
    /\ scanpos = 0
    /\ fnames = <<>>
    /\ indexlens = <<>>
    /\ timelapses = <<>>
    /\ index_maxlen = 0
    /\ recordings = <<>>
    /\ directive = <<>>
    /\ srcExists = TRUE

\* main() is not running.
MainIdle ==
    /\ mainpc = "idle"
    /\ srcHasTxt = FALSE
    /\ srcData = <<>>
    /\ targetTxt = "absent"
    /\ targetTl = {}
    /\ tlCopied = {}
    /\ compressInvoked = <<>>

\* ------------------------------------------------------------------- Init
\* Scan results are sorted by index (sorted(zipped, key=index)).
SortedIndices ==
    UNION { { s \in [1..n -> 1..MaxIndex] :
                \A a, b \in 1..n : a < b => s[a] <= s[b] } : n \in 0..MaxRecordings }

Directives ==
    UNION { [1..n -> [index : 1..MaxIndex, title : Titles]] : n \in 0..MaxDirectives }

\* The files the batch may write in the target directory.
FilesOf(p, ind, dat) ==
    IF p = "extract"
    THEN { ExtractOut(dat[k].index, dat[k].title) :
             k \in { q \in 1..Len(dat) : IndexOf(ind, dat[q].index) # 0 } }
    ELSE { CompressOut(k) : k \in 1..Len(ind) }

Init ==
    /\ prog \in {"compress", "extract", "compress_all"}
    /\ indices \in SortedIndices
    \* RecordProcessor.__init__ needs at least one recording (max(indexlens));
    \* the index list is only read by extract.
    /\ prog # "compress_all" => Len(indices) >= 1
    /\ prog # "extract" => \A k \in 1..Len(indices) : indices[k] = 1
    /\ data \in Directives
    /\ prog # "extract" => data = <<>>
    /\ maxnum \in 0..MaxNum
    \* Files left by earlier runs are whole files.
    /\ targetdir \in [FilesOf(prog, indices, data) -> {"absent", "complete"}]
    /\ pc = "loop"
    /\ i = 0
    /\ new_file = NoFile
    /\ opened = FALSE
    /\ exc = "none"
    /\ targetdir0 = targetdir
    /\ startDir = <<>>
    /\ started = <<>>
    /\ invoked = <<>>
    /\ results = <<>>
    /\ intr = NoIntr
    /\ NameIdle
    /\ ExtIdle
    /\ ScanIdle
    /\ MainIdle
    \* Every line of extract.txt is well formed.
    /\ lineform = [k \in 1..Len(data) |-> "ok"]

\* --------------------------------------------- RecordProcessor.compress
\* for i, (_, fname, file) in enumerate(self): if i >= maxnum: break
CompressLoop ==
    /\ prog = "compress" /\ pc = "loop"
    /\ IF i >= num \/ i >= CompressMaxnum
       THEN /\ pc' = "done"
            /\ UNCHANGED startDir
       ELSE /\ pc' = "pre"
            /\ startDir' = Append(startDir, targetdir)
    /\ UNCHANGED <<prog, indices, data, maxnum, targetdir, i, new_file, opened,
                   exc, targetdir0, started, invoked, results, intr>>
    /\ UNCHANGED auxVars

\* try: now = ...; logging.info('---- <%s> Start compressing ...');
\* new_file = os.path.join(self.targetdir, fname)
CompressStart ==
    /\ prog = "compress" /\ pc = "pre"
    /\ started' = Append(started, i)
    /\ new_file' = CompressOut(i + 1)
    /\ pc' = "check"
    /\ UNCHANGED <<prog, indices, data, maxnum, targetdir, i, opened, exc,
                   targetdir0, startDir, invoked, results, intr>>
    /\ UNCHANGED auxVars

\* if os.path.isfile(new_file): continue
\* cmd = ...; result = subprocess.run(cmd, ...)   (the child is started)
CompressCheck ==
    /\ prog = "compress" /\ pc = "check"
    /\ IF isfile(targetdir, new_file)
       THEN /\ i' = i + 1
            /\ pc' = "loop"
            /\ UNCHANGED <<invoked, opened>>
       ELSE /\ invoked' = Append(invoked, [job |-> i, existed |-> isfile(targetdir, new_file)])
            /\ opened' = FALSE
            /\ pc' = subprocess_run_waits
            /\ UNCHANGED i
    /\ UNCHANGED <<prog, indices, data, maxnum, targetdir, new_file, exc,
                   targetdir0, startDir, started, results, intr>>
    /\ UNCHANGED auxVars

\* if result.stderr is not None: for line in ...: logging.warning(line)
CompressLogStderr ==
    /\ prog = "compress" /\ pc = "post"
    /\ i' = i + 1
    /\ pc' = "loop"
    /\ UNCHANGED <<prog, indices, data, maxnum, targetdir, new_file, opened,
                   exc, targetdir0, startDir, started, invoked, results, intr>>
    /\ UNCHANGED auxVars

\* ---------------------------------------------- RecordProcessor.extract
\* for i in range(len(data)): if i > maxnum: break
ExtractLoop ==
    /\ prog = "extract" /\ pc = "loop"
    /\ IF i >= Len(data) \/ i > ExtractMaxnum
       THEN /\ pc' = "done"
            /\ UNCHANGED startDir
       ELSE /\ pc' = "pre"
            /\ startDir' = Append(startDir, targetdir)
    /\ UNCHANGED <<prog, indices, data, maxnum, targetdir, i, new_file, opened,
                   exc, targetdir0, started, invoked, results, intr>>
    /\ UNCHANGED auxVars

\* try: index = int(data[i][0]); ...; logging.info('... Start extracting ...')
\* try: record_subscript = self.indices.index(index)
\* except ValueError: logging.info('Source video not found.'); continue
\* new_fname = 'clips_%s_%s.mov' % ...; new_file = os.path.join(...)
\* int(data[i][0]) raises ValueError and data[i][k] IndexError on a malformed
\* line; the try block catches KeyboardInterrupt only, so either leaves extract.
ExtractStart ==
    /\ prog = "extract" /\ pc = "pre"
    /\ IF lineform[i + 1] # "ok"
       THEN /\ exc' = IF lineform[i + 1] = "nonint" THEN "ValueError" ELSE "IndexError"
            /\ pc' = "raised"
            /\ UNCHANGED <<started, i, new_file>>
       ELSE /\ started' = Append(started, i)
            /\ UNCHANGED exc
            /\ IF IndexOf(indices, data[i + 1].index) = 0
               THEN /\ i' = i + 1
                    /\ pc' = "loop"
                    /\ UNCHANGED new_file
               ELSE /\ new_file' = ExtractOut(data[i + 1].index, data[i + 1].title)
                    /\ pc' = "check"
                    /\ UNCHANGED i
    /\ UNCHANGED <<prog, indices, data, maxnum, targetdir, opened,
                   targetdir0, startDir, invoked, results, intr>>
    /\ UNCHANGED auxVars

\* file = self.files[record_subscript]   (input: its position in the scan)
\* if os.path.isfile(new_file): continue
\* cmd = ...; result = subprocess.run(cmd, ...)   (the child is started)
ExtractCheck ==
    /\ prog = "extract" /\ pc = "check"
    /\ IF isfile(targetdir, new_file)
       THEN /\ i' = i + 1
            /\ pc' = "loop"
            /\ UNCHANGED <<invoked, opened>>
       ELSE /\ invoked' = Append(invoked, [job |-> i,
                                           existed |-> isfile(targetdir, new_file),
                                           input |-> IndexOf(indices, data[i + 1].index)])
            /\ opened' = FALSE
            /\ pc' = subprocess_run_waits
            /\ UNCHANGED i
    /\ UNCHANGED <<prog, indices, data, maxnum, targetdir, new_file, exc,
                   targetdir0, startDir, started, results, intr>>
    /\ UNCHANGED auxVars

\* if result.stderr is not None: for line in ...: logging.warning(line)
ExtractLogStderr ==
    /\ prog = "extract" /\ pc = "post"
    /\ i' = i + 1
    /\ pc' = "loop"
    /\ UNCHANGED <<prog, indices, data, maxnum, targetdir, new_file, opened,
                   exc, targetdir0, startDir, started, invoked, results, intr>>
    /\ UNCHANGED auxVars

\* ------------------------------------------- recproc_new.compress_all
\* for i, (in_file, out_file) in enumerate(zip(...)): if i >= maxnum: break
\* print(f'Start compressing "{in_file.name}" ...')    (before the try)
CompressAllLoop ==
    /\ prog = "compress_all" /\ pc = "loop"
    /\ IF i >= num \/ i >= CompressAllMaxnum
       THEN /\ pc' = "done"
            /\ UNCHANGED <<startDir, started>>
       ELSE /\ pc' = "pre"
            /\ startDir' = Append(startDir, targetdir)
            /\ started' = Append(started, i)
    /\ UNCHANGED <<prog, indices, data, maxnum, targetdir, i, new_file, opened,
                   exc, targetdir0, invoked, results, intr>>
    /\ UNCHANGED auxVars

\* try: compress(in_file, out_file) -> subprocess.run(cmd, ...): the child
\* is started whether or not out_file exists.
CompressAllCall ==
    /\ prog = "compress_all" /\ pc = "pre"
    /\ invoked' = Append(invoked,
                         [job |-> i,
                          existed |-> isfile(targetdir, CompressOut(i + 1))])
    /\ opened' = FALSE
    /\ pc' = subprocess_run_waits
    /\ UNCHANGED <<prog, indices, data, maxnum, targetdir, i, new_file, exc,
                   targetdir0, startDir, started, results, intr>>
    /\ UNCHANGED auxVars

\* compress(in_file, out_file) has no return statement: whatever the exit
\* status of the transcoder, the caller gets None.
compress_return(rc) == [kind |-> "None", val |-> 0]

\* (in compress) logging.warning(line) ...; compress returns;
\* print("done"); info_finished = True
CompressAllDone ==
    /\ prog = "compress_all" /\ pc = "post"
    /\ i' = i + 1
    /\ pc' = "loop"
    /\ returned' = Append(returned, [job |-> i,
                                     rc |-> results[Len(results)].rc,
                                     ret |-> compress_return(results[Len(results)].rc)])
    /\ UNCHANGED <<prog, indices, data, maxnum, targetdir, new_file, opened,
                   exc, targetdir0, startDir, started, invoked, results, intr>>
    /\ UNCHANGED <<nameVars, scanVars, parseVars, mainVars, lineVars, wowVars>>

\* ------------------------------------------------------------ transcoder
\* The output path of the running transcoder.
CurOut == IF prog = "compress_all" THEN CompressOut(i + 1) ELSE new_file

\* ffmpeg opens its output file: the file exists from now on, incomplete.
TranscoderOpensOutput ==
    /\ pc = "run" /\ ~opened
    /\ opened' = TRUE
    /\ targetdir' = [targetdir EXCEPT ![CurOut] = "partial"]
    /\ UNCHANGED <<prog, indices, data, maxnum, pc, i, new_file, exc,
                   targetdir0, startDir, started, invoked, results, intr>>
    /\ UNCHANGED auxVars

\* ffmpeg exits and subprocess.run returns: status 0 after the output was
\* written in full, non-zero at any moment (the output stays as it is).
TranscoderExits ==
    /\ pc = "run"
    /\ \E rc \in {0, 1} :
         /\ rc = 0 => opened
         /\ targetdir' = IF rc = 0
                         THEN [targetdir EXCEPT ![CurOut] = "complete"]
                         ELSE targetdir
         /\ results' = Append(results, [job |-> i, rc |-> rc])
         /\ pc' = subprocess_run_returns(rc)
    /\ UNCHANGED <<prog, indices, data, maxnum, i, new_file, opened, exc,
                   targetdir0, startDir, started, invoked, intr>>
    /\ UNCHANGED auxVars

\* ------------------------------------------------------------ interrupts
\* KeyboardInterrupt outside every try block (the for statement, the cap
\* test): it propagates out of the method.
InterruptPropagates ==
    /\ pc = "loop"
    /\ pc' = "raised"
    /\ exc' = "KeyboardInterrupt"
    /\ intr' = [at |-> pc, job |-> i, dir |-> targetdir]
    /\ UNCHANGED <<prog, indices, data, maxnum, targetdir, i, new_file, opened,
                   targetdir0, startDir, started, invoked, results>>
    /\ UNCHANGED auxVars

\* except KeyboardInterrupt: logging.info('... interrupted.')
\*     if 'new_file' in locals(): os.remove(new_file)
\*     break
\* (the same handler in compress and in extract; subprocess.run kills the
\* child before the exception reaches the handler)
RecprocInterrupt ==
    /\ prog \in {"compress", "extract"}
    /\ pc \in {"pre", "check", "run", "post"}
    /\ intr' = [at |-> pc, job |-> i, dir |-> targetdir]
    /\ IF new_file = NoFile
       THEN /\ pc' = "done"
            /\ UNCHANGED <<targetdir, exc>>
       ELSE IF isfile(targetdir, new_file)
       THEN /\ targetdir' = os_remove(targetdir, new_file)
            /\ pc' = "done"
            /\ UNCHANGED exc
       ELSE \* os.remove raises FileNotFoundError inside the handler
            /\ pc' = "raised"
            /\ exc' = "FileNotFoundError"
            /\ UNCHANGED targetdir
    /\ UNCHANGED <<prog, indices, data, maxnum, i, new_file, opened,
                   targetdir0, startDir, started, invoked, results>>
    /\ UNCHANGED auxVars

\* except KeyboardInterrupt: ...; print("Compressing interrupted by Ctrl-C.")
\*     out_file.unlink(missing_ok=True)
\*     break
CompressAllInterrupt ==
    /\ prog = "compress_all"
    /\ pc \in {"pre", "run", "post"}
    /\ intr' = [at |-> pc, job |-> i, dir |-> targetdir]
    /\ targetdir' = unlink_missing_ok(targetdir, CompressOut(i + 1))
    /\ pc' = "done"
    /\ UNCHANGED <<prog, indices, data, maxnum, i, new_file, opened, exc,
                   targetdir0, startDir, started, invoked, results>>
    /\ UNCHANGED auxVars

Next ==
    \/ CompressLoop
    \/ CompressStart
    \/ CompressCheck
    \/ CompressLogStderr
    \/ ExtractLoop
    \/ ExtractStart
    \/ ExtractCheck
    \/ ExtractLogStderr
    \/ CompressAllLoop
    \/ CompressAllCall
    \/ CompressAllDone
    \/ TranscoderOpensOutput
    \/ TranscoderExits
    \/ InterruptPropagates
    \/ RecprocInterrupt
    \/ CompressAllInterrupt

Spec == Init /\ [][Next]_vars

\* ================================================================ claims
\* The run has ended: the method returned or an exception left it.
Terminal == pc \in {"done", "raised"}

\* A KeyboardInterrupt was handled in this run.
Interrupted == intr.at # "none"

\* The interrupt arrived inside the try block of a job.
InterruptedInJob == intr.at \in {"pre", "check", "run", "post"}

\* Jobs (0-based) the transcoder was invoked for, in invocation order.
InvokedJobs == [k \in 1..Len(invoked) |-> invoked[k].job]

InvokedSet == { invoked[k].job : k \in 1..Len(invoked) }

\* Jobs whose transcoder invocation ended with status rc.
JobsWithRc(rc) == { results[k].job : k \in { q \in 1..Len(results) : results[q].rc = rc } }

\* Target directory when the iteration of job j began.
DirAtStartOf(j) == startDir[j + 1]

Min(a, b) == IF a < b THEN a ELSE b

\* ---- C1
\* C1: an interrupt never deletes an output file that was complete before
\* the current job started (made by an earlier job of this run or by an
\* earlier run), wherever in the iteration it arrives; an interrupt between
\* two jobs deletes nothing at all.
C1_InterruptKeepsCompleteOutputs ==
    /\ intr.at = "loop" => targetdir = intr.dir
    /\ InterruptedInJob =>
         \A f \in DOMAIN targetdir :
            DirAtStartOf(intr.job)[f] = "complete" => targetdir[f] = "complete"

\* ---- C2
\* C2: when the interrupt arrives while the transcoder runs job i and job
\* i's output file exists (even partially written), that file does not
\* exist once the executor has stopped.
C2_InterruptedOutputRemoved ==
    (Terminal /\ intr.at = "run" /\ intr.dir[OutOf(intr.job)] # "absent")
        => targetdir[OutOf(intr.job)] = "absent"

\* Witness of C2: a run stopped by an interrupt that found the running
\* job's output half written.
C2_Witness ==
    /\ Terminal
    /\ intr.at = "run"
    /\ intr.dir[OutOf(intr.job)] = "partial"

\* ---- C3
\* C3: a job is atomic. After the batch has ended, no job attempted in the
\* run whose output was missing when its turn came has left a half-written
\* output: an output the transcoder created and then failed on (non-zero
\* exit) has been deleted. (A consequence of the claim that every present
\* output of an attempted job belongs to a successful invocation.)
C3_NoPartialOutputAfterRun ==
    Terminal =>
        \A j \in InvokedSet :
            DirAtStartOf(j)[OutOf(j)] = "absent" => targetdir[OutOf(j)] # "partial"

\* ---- C4
\* C4: an interrupt during a job whose output file has not been created
\* only logs and stops the batch normally: nothing is removed and no
\* exception of the cleanup itself leaves the method.
C4_InterruptBeforeOutputStopsNormally ==
    (/\ InterruptedInJob
     /\ OutOf(intr.job) # NoFile
     /\ intr.dir[OutOf(intr.job)] = "absent")
        => /\ pc = "done"
           /\ exc = "none"
           /\ targetdir = intr.dir

\* ---- C5
\* C5: compression is idempotent across runs. A compression run started on a
\* target directory that already holds the output of every scanned
\* recording, and not interrupted, never invokes the transcoder and leaves
\* every file as it was.
C5_SecondRunDoesNothing ==
    (/\ prog \in {"compress", "compress_all"}
     /\ \A f \in DOMAIN targetdir0 : targetdir0[f] = "complete"
     /\ ~Interrupted)
        => /\ invoked = <<>>
           /\ targetdir = targetdir0

\* ---- C6
\* C6: the transcoder is never invoked for a job whose output file exists at
\* the moment of the invocation.
C6_NeverInvokedOnExistingOutput ==
    \A k \in 1..Len(invoked) : ~invoked[k].existed

\* ---- C7
\* Number of loop positions the cap admits (maxnum = 0: all of them).
CapPositions == IF maxnum = 0 THEN NumJobs ELSE Min(maxnum, NumJobs)

\* C7: a non-zero exit of the transcoder on job i does not abort the batch.
\* In a run that was not interrupted the method returns normally, the jobs
\* are invoked in increasing order, and every later job j within the cap
\* (j < maxnum, or any j when maxnum = 0) whose output was missing when its
\* turn came has been given to the transcoder.
C7_FailureDoesNotAbort ==
    (Terminal /\ ~Interrupted) =>
        /\ pc = "done"
        /\ \A a, b \in 1..Len(invoked) : a < b => invoked[a].job < invoked[b].job
        /\ \A f \in JobsWithRc(1) :
             \A j \in (f + 1)..(CapPositions - 1) :
                /\ j < Len(startDir)
                /\ (OutOf(j) # NoFile /\ DirAtStartOf(j)[OutOf(j)] = "absent")
                       => j \in InvokedSet

\* Witness of C7: an uninterrupted run in which the transcoder failed on one
\* job and a later job was invoked all the same.
C7_Witness ==
    /\ pc = "done"
    /\ ~Interrupted
    /\ \E f \in JobsWithRc(1) : \E j \in InvokedSet : j > f

\* ---- C8
\* C8: after an interruption during job i the transcoder is never invoked
\* for a job j > i of the phase, and the output of such a job is as it was
\* when job i started: neither created nor deleted.
C8_LaterJobsUntouchedAfterInterrupt ==
    InterruptedInJob =>
        \A j \in (intr.job + 1)..(NumJobs - 1) :
            /\ j \notin InvokedSet
            /\ OutOf(j) # NoFile =>
                 targetdir[OutOf(j)] = DirAtStartOf(intr.job)[OutOf(j)]

\* ---- C9
\* Recordings (0-based positions, scan order) with no output in the target
\* directory when the run began.
Eligible == SelectSeq([k \in 1..num |-> k - 1],
                      LAMBDA j : targetdir0[CompressOut(j + 1)] = "absent")

\* C9: with a cap k > 0 and n eligible recordings, an uninterrupted
\* compression run invokes the transcoder for exactly the first min(k, n)
\* eligible recordings and leaves every other output untouched.
C9_CapCountsEligibleJobs ==
    (/\ prog \in {"compress", "compress_all"}
     /\ maxnum > 0
     /\ pc = "done"
     /\ ~Interrupted)
        => /\ InvokedJobs = SubSeq(Eligible, 1, Min(maxnum, Len(Eligible)))
           /\ \A j \in 0..(num - 1) :
                j \notin InvokedSet =>
                    targetdir[CompressOut(j + 1)] = targetdir0[CompressOut(j + 1)]

\* ---- C10
\* C10: with a cap k > 0 an extraction run attempts at most k directives;
\* with cap 0 an uninterrupted run attempts every directive.
C10_ExtractAttemptsAtMostCap ==
    prog = "extract" =>
        /\ maxnum > 0 => Len(started) <= maxnum
        /\ (maxnum = 0 /\ pc = "done" /\ ~Interrupted) => Len(started) = Len(data)

\* =========================================================================
\* File recognition: RE_RECORDING, RE_TIMELAPSE, RE_INDEX and the functions
\* is_recording, is_timelapse, get_index of recproc_new.py (the same three
\* expressions are RE_RECORD, RE_TIMELAPSE, RE_INDEX of RecordProcessor).
\* A file name is a sequence of one-character strings.
\* =========================================================================

\* Longest run of leading digits a generated name carries.
MaxDigits == 2

\* [0-9]
IsDigit(c) == c \in {"0", "1", "2", "3", "4", "5", "6", "7", "8", "9"}

\* [a-z]
IsLower(c) == c \in {"a", "b", "c", "d", "e", "f", "g", "h", "i", "j", "k", "l",
                     "m", "n", "o", "p", "q", "r", "s", "t", "u", "v", "w", "x",
                     "y", "z"}

\* '.' of a regular expression compiled without DOTALL: any character but
\* the line feed.
IsDot(c) == c # "\n"

\* s[a..b] consists of digits / lower-case letters / '.'-characters.
DigitsAt(s, a, b) == \A k \in a..b : IsDigit(s[k])
LowersAt(s, a, b) == \A k \in a..b : IsLower(s[k])
DotsAt(s, a, b) == \A k \in a..b : IsDot(s[k])

\* The literal t occurs in s at position a.
LitAt(s, a, t) ==
    /\ a >= 1
    /\ a + Len(t) - 1 <= Len(s)
    /\ \A k \in 1..Len(t) : s[a + k - 1] = t[k]

\* \.(mp4|mov|mkv) at position a.
ExtAt(s, a) ==
    \/ LitAt(s, a, <<".", "m", "p", "4">>)
    \/ LitAt(s, a, <<".", "m", "o", "v">>)
    \/ LitAt(s, a, <<".", "m", "k", "v">>)

\* RE_RECORDING.fullmatch(s): ^[0-9]+_day[0-9]+_.*\.(mp4|mov|mkv)$ matched
\* against the whole of s. p is the end of the first digit run, q the end of
\* the second one.
MatchRecording(s) ==
    \E p \in 1..Len(s) : \E q \in 1..Len(s) :
        /\ DigitsAt(s, 1, p)
        /\ LitAt(s, p + 1, <<"_", "d", "a", "y">>)
        /\ q >= p + 5
        /\ DigitsAt(s, p + 5, q)
        /\ LitAt(s, q + 1, <<"_">>)
        /\ q + 1 <= Len(s) - 4
        /\ DotsAt(s, q + 2, Len(s) - 4)
        /\ ExtAt(s, Len(s) - 3)

\* The same expression with [a-z]* for [a-z]+ (no variant letters needed).
MatchTimelapseStar(s) ==
    \E p \in 1..Len(s) : \E q \in 1..Len(s) :
        /\ DigitsAt(s, 1, p)
        /\ q >= p
        /\ LowersAt(s, p + 1, q)
        /\ LitAt(s, q + 1, <<"_">>)
        /\ q + 1 <= Len(s) - 4
        /\ DotsAt(s, q + 2, Len(s) - 4)
        /\ ExtAt(s, Len(s) - 3)

\* RE_TIMELAPSE.fullmatch(s): ^[0-9]+[a-z]+_.*\.(mp4|mov|mkv) matched against
\* the whole of s. p is the end of the digit run, q the end of the letters.
MatchTimelapse(s) ==
    \E p \in 1..Len(s) : \E q \in 1..Len(s) :
        /\ DigitsAt(s, 1, p)
        /\ q >= p + 1
        /\ LowersAt(s, p + 1, q)
        /\ LitAt(s, q + 1, <<"_">>)
        /\ q + 1 <= Len(s) - 4
        /\ DotsAt(s, q + 2, Len(s) - 4)
        /\ ExtAt(s, Len(s) - 3)

\* Ends of group 1 for which ^([0-9]+).*$ matches at the start of s: after
\* the digits s[1..p], '.*' takes s[p+1..e] and '$' holds at e, the end of s
\* or the place before a final line feed.
IndexGroupEnds(s) ==
    { p \in 1..Len(s) :
        /\ DigitsAt(s, 1, p)
        /\ \E e \in p..Len(s) :
              /\ DotsAt(s, p + 1, e)
              /\ \/ e = Len(s)
                 \/ e = Len(s) - 1 /\ s[Len(s)] = "\n" }

\* RE_INDEX.search(s).group(1): [0-9]+ is greedy, so the group is the longest
\* one that lets the rest match; <<>> stands for "no match" (search is None).
IndexGroup(s) ==
    IF IndexGroupEnds(s) = {} THEN <<>>
    ELSE SubSeq(s, 1, CHOOSE p \in IndexGroupEnds(s) :
                          \A r \in IndexGroupEnds(s) : r <= p)

\* Value of one decimal digit.
DigitVal(c) ==
    CASE c = "0" -> 0 [] c = "1" -> 1 [] c = "2" -> 2 [] c = "3" -> 3
      [] c = "4" -> 4 [] c = "5" -> 5 [] c = "6" -> 6 [] c = "7" -> 7
      [] c = "8" -> 8 [] c = "9" -> 9

\* int(index_str) for a non-empty string of digits.
RECURSIVE IntOf(_)
IntOf(d) ==
    IF Len(d) = 0 THEN 0
    ELSE 10 * IntOf(SubSeq(d, 1, Len(d) - 1)) + DigitVal(d[Len(d)])

\* is_recording(file) without the file.is_file() test.
is_recording_by_name(file_is_file, file_name) == MatchRecording(file_name)

\* is_recording(file)
is_recording(file_is_file, file_name) == file_is_file /\ MatchRecording(file_name)

\* is_timelapse(file)
is_timelapse(file_is_file, file_name) == file_is_file /\ MatchTimelapse(file_name)

\* get_index(file): the path is not looked up, only file.name is read.
get_index(file_name) ==
    IF IndexGroup(file_name) = <<>> THEN 0 ELSE IntOf(IndexGroup(file_name))

\* ---- generated names: digits, a middle part, a tail and an extension.
DigitChars == {"0", "1", "2"}

Heads == UNION { [1..n -> DigitChars] : n \in 0..MaxDigits }

Mids == { <<>>, <<"_">>, <<"a">>, <<"a", "_">>, <<"a", "b", "_">>,
          <<"_", "d", "a", "y">>, <<"_", "d", "a", "y", "_">>,
          <<"_", "d", "a", "y", "1">>, <<"_", "d", "a", "y", "1", "_">>,
          <<"_", "d", "a", "y", "x", "_">>,
          <<"a", "_", "d", "a", "y", "1", "_">>,
          <<"d", "a", "y", "_", "d", "a", "y", "1", "_">>,
          <<"A", "_">>, <<"\n", "_">> }

Tails == { <<>>, <<"x">>, <<"_", "1">>, <<"\n">> }

Exts == { <<>>, <<".", "m", "p", "4">>, <<".", "m", "o", "v">>,
          <<".", "m", "k", "v">>, <<".", "m", "p", "3">>,
          <<".", "M", "P", "4">>, <<".", "m", "p", "4", "\n">>,
          <<"m", "p", "4">> }

Names == { h \o m \o t \o e : h \in Heads, m \in Mids, t \in Tails, e \in Exts }

\* The executors' state while only file names are classified.
ExecIdle ==
    /\ prog = "none"
    /\ indices = <<>>
    /\ data = <<>>
    /\ maxnum = 0
    /\ targetdir = <<>>
    /\ pc = "idle"
    /\ i = 0
    /\ new_file = NoFile
    /\ opened = FALSE
    /\ exc = "none"
    /\ targetdir0 = <<>>
    /\ startDir = <<>>
    /\ started = <<>>
    /\ invoked = <<>>
    /\ results = <<>>
    /\ intr = NoIntr

\* is_recording(file) is called and returns.
AskIsRecording ==
    /\ "is_recording" \notin asked
    /\ asked' = asked \cup {"is_recording"}
    /\ ans' = [ans EXCEPT !.rec = is_recording(onDisk, name)]
    /\ UNCHANGED <<name, onDisk, execVars, scanVars, parseVars, mainVars, extVars>>

\* is_timelapse(file) is called and returns.
AskIsTimelapse ==
    /\ "is_timelapse" \notin asked
    /\ asked' = asked \cup {"is_timelapse"}
    /\ ans' = [ans EXCEPT !.tl = is_timelapse(onDisk, name)]
    /\ UNCHANGED <<name, onDisk, execVars, scanVars, parseVars, mainVars, extVars>>

\* get_index(file) is called and returns.
AskGetIndex ==
    /\ "get_index" \notin asked
    /\ asked' = asked \cup {"get_index"}
    /\ ans' = [ans EXCEPT !.idx = get_index(name)]
    /\ UNCHANGED <<name, onDisk, execVars, scanVars, parseVars, mainVars, extVars>>

NameNext ==
    \/ AskIsRecording
    \/ AskIsTimelapse
    \/ AskGetIndex

\* Any generated name, of a file that exists or not; no query made yet.
NameInit ==
    /\ ExecIdle
    /\ ScanIdle
    /\ MainIdle
    /\ ExtIdle
    /\ lineform = <<>>
    /\ name \in Names
    /\ onDisk \in BOOLEAN
    /\ asked = {}
    /\ ans = [rec |-> FALSE, tl |-> FALSE, idx |-> 0]

NameSpec == NameInit /\ [][NameNext]_vars

\* Length of the longest run of leading digits of s.
RECURSIVE LeadingDigits(_)
LeadingDigits(s) ==
    IF Len(s) = 0 \/ ~IsDigit(s[1]) THEN 0 ELSE 1 + LeadingDigits(Tail(s))

\* ---- C18
\* C18: no file name is classified both as a recording and as a timelapse,
\* whether the file exists or not.
C18_NeverBothKinds ==
    {"is_recording", "is_timelapse"} \subseteq asked => ~(ans.rec /\ ans.tl)

\* Witness of C18: both queries were made on existing files, and there are
\* names of each kind: here one that is a timelapse although it carries
\* "_day<digits>_" after its letters.
C18_Witness ==
    /\ {"is_recording", "is_timelapse"} \subseteq asked
    /\ onDisk
    /\ ans.tl /\ ~ans.rec
    /\ \E k \in 1..Len(name) : LitAt(name, k, <<"_", "d", "a", "y", "1", "_">>)

\* ---- C19
\* C19: for a path that does not exist all three queries give the negative
\* result: is_recording is false, is_timelapse is false and get_index gives
\* no index (its "no index" value, 0).
C19_MissingPathIsNothing ==
    ~onDisk =>
        /\ "is_recording" \in asked => ~ans.rec
        /\ "is_timelapse" \in asked => ~ans.tl
        /\ "get_index" \in asked => ans.idx = 0

\* ---- C20
\* C20: for every file name that starts with a digit, get_index is the
\* integer value of the longest leading run of digits.
C20_IndexIsLeadingDigits ==
    ("get_index" \in asked /\ Len(name) > 0 /\ IsDigit(name[1])) =>
        ans.idx = IntOf(SubSeq(name, 1, LeadingDigits(name)))

\* ------------------------------------------------------------- the scanner
\* Largest number of entries of a scanned directory.
MaxListing == 3

Mp4 == <<".", "m", "p", "4">>

Mov == <<".", "m", "o", "v">>

Mkv == <<".", "m", "k", "v">>

DayPart == <<"_", "d", "a", "y", "1", "_">>

\* File names of a source directory: recordings 1_day1_a.mp4, 1_day1_b.mp4,
\* 01_day1_c.mkv (three names of index 1, of two widths), 2_day1_a.mov and
\* 10_day1_a.mp4, the timelapse 1a_.mp4 and the other file 1_day1_a.txt.
ScanPool ==
    { <<"1">> \o DayPart \o <<"a">> \o Mp4,
      <<"1">> \o DayPart \o <<"b">> \o Mp4,
      <<"0", "1">> \o DayPart \o <<"c">> \o Mkv,
      <<"2">> \o DayPart \o <<"a">> \o Mov,
      <<"1", "0">> \o DayPart \o <<"a">> \o Mp4,
      <<"1", "a", "_">> \o Mp4,
      <<"1">> \o DayPart \o <<"a">> \o <<".", "t", "x", "t">> }

\* The entries a directory may hold: a regular file of each of these names,
\* and a directory whose name, 0_day1_a.mp4, is that of a recording.
ScanEntries ==
    [name : ScanPool, is_file : {TRUE}]
        \cup {[name |-> <<"0">> \o DayPart \o <<"a">> \o Mp4, is_file |-> FALSE]}

\* The entries of a directory in every enumeration order; names are distinct.
Listings ==
    UNION { { l \in [1..n -> ScanEntries] :
                \A a \in 1..n : \A b \in 1..n : a # b => l[a].name # l[b].name }
            : n \in 0..MaxListing }

\* The executors' variables the scanner does not write.
execRest == <<prog, data, maxnum, targetdir, pc, i, opened, targetdir0, startDir,
              started, invoked, results, intr>>

\* sorted(zipped, key=...) without the reordering.
sorted_unchanged(z) == z

\* sorted(zipped, key=lambda pair: pair[2]), sorted(recordings, key=get_index):
\* Python's sort is stable, an element goes behind the elements already placed
\* whose key is not larger.
RECURSIVE sorted(_)
sorted(z) ==
    IF Len(z) = 0 THEN <<>>
    ELSE LET s == sorted(SubSeq(z, 1, Len(z) - 1))
             x == z[Len(z)]
             k == Cardinality({ j \in 1..Len(s) : s[j].index <= x.index })
         IN  SubSeq(s, 1, k) \o <<x>> \o SubSeq(s, k + 1, Len(s))

\* os.scandir treating a missing directory as an empty one.
os_scandir_never_raises(exists) == FALSE

\* os.scandir(srcdir), directory.iterdir(): FileNotFoundError when the
\* directory does not exist.
os_scandir_raises(exists) == ~exists

\* max(indexlens) of a non-empty list.
max(s) == CHOOSE m \in { s[k] : k \in 1..Len(s) } : \A k \in 1..Len(s) : s[k] <= m

\* The character of one decimal digit.
DigitChar(n) == CHOOSE c \in {"0", "1", "2", "3", "4", "5", "6", "7", "8", "9"} : DigitVal(c) = n

\* '%d' % n for n >= 0.
RECURSIVE DecimalOf(_)
DecimalOf(n) ==
    IF n < 10 THEN <<DigitChar(n)>>
    ELSE DecimalOf(n \div 10) \o <<DigitChar(n % 10)>>

\* ('%%0%dd' % self.index_maxlen) % index: zeros in front up to width w, never
\* fewer digits than the number has.
ZeroPadded(n, w) ==
    LET d == DecimalOf(n)
    IN  IF Len(d) >= w THEN d ELSE [k \in 1..(w - Len(d)) |-> "0"] \o d

\* 'clips_%s_%s.mov' % (fullindex_str, title); the title is kept as one element.
ClipFileName(index, title, w) ==
    <<"c", "l", "i", "p", "s", "_">> \o ZeroPadded(index, w) \o <<"_", title>> \o Mov

\* os.scandir(srcdir) on a directory that does not exist: FileNotFoundError is
\* caught and raised again as FileNotFoundError('Source directory not found.').
ScanDirMissing ==
    /\ scanner = "RecordProcessor"
    /\ scanpc = "scan"
    /\ os_scandir_raises(srcExists)
    /\ exc' = "FileNotFoundError"
    /\ scanpc' = "raised"
    /\ UNCHANGED <<scandir, scanner, scanpos, fnames, indexlens, timelapses,
                   index_maxlen, recordings, directive, srcExists>>
    /\ UNCHANGED <<execRest, indices, new_file, nameVars, extVars, parseVars, mainVars>>

\* for f in os.scandir(srcdir): one entry is read and classified.
ScanEntry ==
    /\ scanner = "RecordProcessor"
    /\ scanpc = "scan"
    /\ ~os_scandir_raises(srcExists)
    /\ scanpos < Len(scandir)
    /\ LET f == scandir[scanpos + 1]
           index_str == IndexGroup(f.name)
       IN  IF f.is_file /\ MatchRecording(f.name)
           THEN /\ fnames' = Append(fnames, f.name)
                /\ indices' = Append(indices, IntOf(index_str))
                /\ indexlens' = Append(indexlens, Len(index_str))
                /\ UNCHANGED timelapses
           ELSE IF f.is_file /\ MatchTimelapse(f.name)
           THEN /\ timelapses' = Append(timelapses, f.name)
                /\ UNCHANGED <<fnames, indices, indexlens>>
           ELSE UNCHANGED <<fnames, indices, indexlens, timelapses>>
    /\ scanpos' = scanpos + 1
    /\ UNCHANGED <<scandir, scanner, scanpc, index_maxlen, recordings, directive, srcExists>>
    /\ UNCHANGED <<execRest, new_file, exc, nameVars, extVars, parseVars, mainVars>>

\* The end of RecordProcessor.__init__: max(indexlens) raises ValueError when
\* no recording was found; otherwise the three lists are reordered by index.
\* (The target directory, made here when missing, is not part of the scan.)
ScanEnd ==
    /\ scanner = "RecordProcessor"
    /\ scanpc = "scan"
    /\ ~os_scandir_raises(srcExists)
    /\ scanpos = Len(scandir)
    /\ IF indexlens = <<>>
       THEN /\ exc' = "ValueError"
            /\ scanpc' = "raised"
            /\ UNCHANGED <<fnames, indices, index_maxlen>>
       ELSE LET zipped == sorted([k \in 1..Len(fnames) |->
                                     [fname |-> fnames[k], index |-> indices[k]]])
            IN  /\ index_maxlen' = max(indexlens)
                /\ fnames' = [k \in 1..Len(zipped) |-> zipped[k].fname]
                /\ indices' = [k \in 1..Len(zipped) |-> zipped[k].index]
                /\ scanpc' = "done"
                /\ UNCHANGED exc
    /\ UNCHANGED <<scandir, scanner, scanpos, indexlens, timelapses, recordings, directive, srcExists>>
    /\ UNCHANGED <<execRest, new_file, nameVars, extVars, parseVars, mainVars>>

\* get_recordings(directory): directory.iterdir() raises FileNotFoundError for
\* a directory that does not exist.
GetRecordings ==
    /\ scanner = "get_recordings"
    /\ scanpc = "scan"
    /\ IF os_scandir_raises(srcExists)
       THEN /\ exc' = "FileNotFoundError"
            /\ scanpc' = "raised"
            /\ UNCHANGED recordings
       ELSE LET found == SelectSeq(scandir, LAMBDA f : is_recording(f.is_file, f.name))
                keyed == sorted([k \in 1..Len(found) |->
                                    [fname |-> found[k].name, index |-> get_index(found[k].name)]])
            IN  /\ recordings' = [k \in 1..Len(keyed) |-> keyed[k].fname]
                /\ scanpc' = "done"
                /\ UNCHANGED exc
    /\ UNCHANGED <<scandir, scanner, scanpos, fnames, indexlens, timelapses,
                   index_maxlen, directive, srcExists>>
    /\ UNCHANGED <<execRest, indices, new_file, nameVars, extVars, parseVars, mainVars>>

\* extract, for one line (index, title) of extract.txt: the recording is looked
\* up and the name of the clip is built.
ExtractClipName ==
    /\ scanner = "RecordProcessor"
    /\ scanpc = "done"
    /\ \E index \in { indices[k] : k \in 1..Len(indices) } \cup {3} : \E title \in Titles :
          /\ directive' = <<index, title>>
          /\ IF IndexOf(indices, index) = 0
             THEN /\ scanpc' = "notfound"
                  /\ UNCHANGED new_file
             ELSE /\ scanpc' = "named"
                  /\ new_file' = ClipFileName(index, title, index_maxlen)
    /\ UNCHANGED <<scandir, scanner, scanpos, fnames, indexlens, timelapses,
                   index_maxlen, recordings, srcExists>>
    /\ UNCHANGED <<execRest, indices, exc, nameVars, extVars, parseVars, mainVars>>

ScanNext ==
    \/ ScanDirMissing
    \/ ScanEntry
    \/ ScanEnd
    \/ GetRecordings
    \/ ExtractClipName

\* A directory that exists, with any entries in any enumeration order, about
\* to be scanned by one of the two scanners.
ScanInit ==
    /\ ExecIdle
    /\ NameIdle
    /\ ExtIdle
    /\ MainIdle
    /\ lineform = <<>>
    /\ srcExists \in BOOLEAN
    /\ scandir \in IF srcExists THEN Listings ELSE {<<>>}
    /\ scanner \in {"RecordProcessor", "get_recordings"}
    /\ scanpc = "scan"
    /\ scanpos = 0
    /\ fnames = <<>>
    /\ indexlens = <<>>
    /\ timelapses = <<>>
    /\ index_maxlen = 0
    /\ recordings = <<>>
    /\ directive = <<>>

ScanSpec == ScanInit /\ [][ScanNext]_vars

\* The list a completed scan has produced.
ScanReturned == scanpc \in {"done", "named", "notfound"}

ScannedList == IF scanner = "get_recordings" THEN recordings ELSE fnames

\* The recordings of the scanned directory: regular files of recording name.
DirRecordings ==
    { scandir[k].name : k \in { j \in 1..Len(scandir) :
                                  scandir[j].is_file /\ MatchRecording(scandir[j].name) } }

\* The number a file name starts with.
LeadIndex(s) == IntOf(SubSeq(s, 1, LeadingDigits(s)))

\* Code points of the characters of the scanned names.
Ord(c) ==
    CASE c = "." -> 46 [] c = "0" -> 48 [] c = "1" -> 49 [] c = "2" -> 50
      [] c = "4" -> 52 [] c = "_" -> 95 [] c = "a" -> 97 [] c = "b" -> 98
      [] c = "c" -> 99 [] c = "d" -> 100 [] c = "k" -> 107 [] c = "m" -> 109
      [] c = "o" -> 111 [] c = "p" -> 112 [] c = "t" -> 116 [] c = "v" -> 118
      [] c = "x" -> 120 [] c = "y" -> 121

\* s < t as Python compares two strings: by the first differing character,
\* a proper prefix first.
StrLess(s, t) ==
    \E k \in 1..(Len(t)) :
        /\ k <= Len(s) + 1
        /\ \A j \in 1..(k - 1) : s[j] = t[j]
        /\ \/ k = Len(s) + 1
           \/ k <= Len(s) /\ Ord(s[k]) < Ord(t[k])

\* ---- C16
\* C16: whatever the directory holds and in whatever order the file system
\* enumerates it, the list a scan produces is a permutation of the directory's
\* recordings (each one exactly once, nothing else) with non-decreasing indices.
C16_SortedPermutation ==
    ScanReturned =>
        /\ Len(ScannedList) = Cardinality(DirRecordings)
        /\ { ScannedList[k] : k \in 1..Len(ScannedList) } = DirRecordings
        /\ \A k \in 1..(Len(ScannedList) - 1) :
              LeadIndex(ScannedList[k]) <= LeadIndex(ScannedList[k + 1])
        /\ scanner = "RecordProcessor" =>
              indices = [k \in 1..Len(fnames) |-> LeadIndex(fnames[k])]

\* Witness of C16: a scan has returned for a directory that enumerates a
\* recording of larger index before one of smaller index, between other files.
C16_Witness ==
    /\ ScanReturned
    /\ Len(ScannedList) >= 2
    /\ Len(scandir) > Len(ScannedList)
    /\ \E a \in 1..Len(scandir) : \E b \in 1..Len(scandir) :
          /\ a < b
          /\ {scandir[a].name, scandir[b].name} \subseteq DirRecordings
          /\ LeadIndex(scandir[a].name) > LeadIndex(scandir[b].name)

\* ---- C17
\* C17: scanned recordings of the same index stand in ascending order of their
\* file names, so that the scanned order does not depend on the enumeration.
C17_TiesByFilename ==
    ScanReturned =>
        \A k \in 1..Len(ScannedList) : \A l \in 1..Len(ScannedList) :
            (k < l /\ LeadIndex(ScannedList[k]) = LeadIndex(ScannedList[l]))
                => StrLess(ScannedList[k], ScannedList[l])

\* ---- C15
\* C15: the output name of a directive (index, title) that resolves to a
\* recording is 'clip_', the index with zeros in front up to the width W, '_',
\* the title and a clip extension, W being the largest number of leading
\* digits of a scanned recording's name.
C15_ClipNameShape ==
    scanpc = "named" =>
        LET W == max([k \in 1..Len(fnames) |-> LeadingDigits(fnames[k])])
            n == Len(new_file)
        IN  \E ext \in {Mp4, Mov, Mkv} : \E e \in 6..n :
                LET P == SubSeq(new_file, 6, e)
                IN  /\ LitAt(new_file, 1, <<"c", "l", "i", "p", "_">>)
                    /\ \A k \in 1..Len(P) : IsDigit(P[k])
                    /\ IntOf(P) = directive[1]
                    /\ \/ Len(P) = W
                       \/ Len(P) > W /\ P[1] # "0"
                    /\ SubSeq(new_file, e + 1, n) = <<"_", directive[2]>> \o ext

\* ---- C14
\* Directives (0-based positions) whose index is the index of no scanned
\* recording.
Unresolved ==
    { j \in 0..(Len(data) - 1) : ~\E k \in 1..Len(indices) : indices[k] = data[j + 1].index }

StartedSet == { started[k] : k \in 1..Len(started) }

\* C14: a directive whose index matches no scanned recording is never given
\* to the transcoder and leaves the target directory as it found it; in a run
\* that is not interrupted it raises nothing, the method returns normally and
\* every later directive within the cap has been processed.
C14_UnresolvedDirectiveSkipped ==
    prog = "extract" =>
        \A j \in Unresolved :
            /\ j \notin InvokedSet
            /\ (j + 1 < Len(startDir) /\ ~(Interrupted /\ intr.job = j))
                   => startDir[j + 2] = DirAtStartOf(j)
            /\ (Terminal /\ ~Interrupted /\ j \in StartedSet) =>
                   /\ pc = "done"
                   /\ exc = "none"
                   /\ \A l \in (j + 1)..(Len(data) - 1) :
                          (maxnum = 0 \/ l < maxnum) => l \in StartedSet

\* Witness of C14: an uninterrupted extract run has ended in which a directive
\* without recording was met and a later directive was given to the
\* transcoder.
C14_Witness ==
    /\ prog = "extract"
    /\ pc = "done"
    /\ ~Interrupted
    /\ \E j \in Unresolved : \E l \in InvokedSet : j \in StartedSet /\ l > j

\* ------------------------------------------- extract on a malformed file
\* The well-formed lines of dat, in order.
RECURSIVE OkLines(_, _)
OkLines(dat, forms) ==
    IF Len(dat) = 0 THEN <<>>
    ELSE LET front == OkLines(SubSeq(dat, 1, Len(dat) - 1), SubSeq(forms, 1, Len(dat) - 1))
         IN  IF forms[Len(dat)] = "ok" THEN Append(front, dat[Len(dat)]) ELSE front

\* extract is entered with an extract.txt that holds at least one malformed
\* line (its index and title are not read: they are fixed here).
ExtractInit ==
    /\ prog = "extract"
    /\ indices \in SortedIndices
    /\ Len(indices) >= 1
    /\ data \in Directives
    /\ lineform \in [1..Len(data) -> {"ok", "short", "nonint"}]
    /\ \E k \in 1..Len(data) : lineform[k] # "ok"
    /\ \A k \in 1..Len(data) :
          lineform[k] # "ok" => data[k] = [index |-> 1, title |-> "a"]
    /\ maxnum \in 0..MaxNum
    /\ targetdir \in [FilesOf(prog, indices, OkLines(data, lineform)) -> {"absent", "complete"}]
    /\ pc = "loop"
    /\ i = 0
    /\ new_file = NoFile
    /\ opened = FALSE
    /\ exc = "none"
    /\ targetdir0 = targetdir
    /\ startDir = <<>>
    /\ started = <<>>
    /\ invoked = <<>>
    /\ results = <<>>
    /\ intr = NoIntr
    /\ NameIdle
    /\ ExtIdle
    /\ ScanIdle
    /\ MainIdle

ExtractNext ==
    \/ ExtractLoop
    \/ ExtractStart
    \/ ExtractCheck
    \/ ExtractLogStderr
    \/ TranscoderOpensOutput
    \/ TranscoderExits
    \/ InterruptPropagates
    \/ RecprocInterrupt

ExtractSpec == ExtractInit /\ [][ExtractNext]_vars

\* ---- C13
\* Lines (0-based positions) of extract.txt that are malformed.
Malformed == { j \in 0..(Len(data) - 1) : lineform[j + 1] # "ok" }

\* C13: when extract.txt holds a malformed line, no extraction job of the
\* file is executed, not even for the well-formed lines in front of it, and a
\* run that is not interrupted ends with the error of the malformed line
\* (the line is not skipped).
C13_MalformedFileRunsNothing ==
    (prog = "extract" /\ Malformed # {}) =>
        /\ invoked = <<>>
        /\ (Terminal /\ ~Interrupted) =>
              /\ pc = "raised"
              /\ exc \in {"ValueError", "IndexError"}

\* ------------------------------------------------------------------ main()
\* Largest number of entries of the source directory and of lines of
\* extract.txt in a run of main().
MaxMain == 2

\* Entries of the source directory: two recordings, a timelapse and a
\* directory whose name is that of a recording.
MainEntries ==
    { [name |-> <<"1">> \o DayPart \o <<"a">> \o Mp4, is_file |-> TRUE],
      [name |-> <<"2">> \o DayPart \o <<"a">> \o Mov, is_file |-> TRUE],
      [name |-> <<"1", "a", "_">> \o Mp4, is_file |-> TRUE],
      [name |-> <<"0">> \o DayPart \o <<"a">> \o Mp4, is_file |-> FALSE] }

MainListings ==
    UNION { { l \in [1..n -> MainEntries] :
                \A a \in 1..n : \A b \in 1..n : a # b => l[a].name # l[b].name }
            : n \in 0..MaxMain }

\* Well-formed contents of extract.txt.
MainDirectives ==
    UNION { [1..n -> [index : {1, 2}, title : {"a"}]] : n \in 0..MaxMain }

\* The files the run may write in the target directory: the compressed
\* recordings and the clips of the directives.
MainFiles(listing, dat) ==
    { CompressOut(k) :
        k \in 1..Len(SelectSeq(listing, LAMBDA f : f.is_file /\ MatchRecording(f.name))) }
    \cup { ExtractOut(dat[k].index, dat[k].title) : k \in 1..Len(dat) }

\* A main() whose try statement around extract catches nothing.
main_catches_nothing(e) == FALSE

\* try: processor.extract(...)  except FileNotFoundError: pass
main_catches(e) == e = "FileNotFoundError"

\* main() is started on a source directory that exists or not, with or
\* without extract.txt, and a target directory left by earlier runs or empty.
MainInit ==
    /\ mainpc = "construct"
    /\ srcExists \in BOOLEAN
    /\ scandir \in IF srcExists THEN MainListings ELSE {<<>>}
    /\ srcHasTxt \in IF srcExists THEN BOOLEAN ELSE {FALSE}
    /\ srcData \in IF srcHasTxt THEN MainDirectives ELSE {<<>>}
    /\ maxnum \in {0, 1}
    /\ targetdir \in { [f \in MainFiles(scandir, srcData) |-> "absent"],
                       [f \in MainFiles(scandir, srcData) |-> "complete"] }
    /\ targetTxt \in {"absent", "old"}
    /\ targetTl \in SUBSET { <<"1", "a", "_">> \o Mp4 }
    /\ tlCopied = {}
    /\ compressInvoked = <<>>
    /\ scanner = "RecordProcessor"
    /\ scanpc = "scan"
    /\ scanpos = 0
    /\ fnames = <<>>
    /\ indexlens = <<>>
    /\ timelapses = <<>>
    /\ index_maxlen = 0
    /\ recordings = <<>>
    /\ directive = <<>>
    /\ prog = "none"
    /\ pc = "idle"
    /\ indices = <<>>
    /\ data = <<>>
    /\ lineform = <<>>
    /\ i = 0
    /\ new_file = NoFile
    /\ opened = FALSE
    /\ exc = "none"
    /\ targetdir0 = targetdir
    /\ startDir = <<>>
    /\ started = <<>>
    /\ invoked = <<>>
    /\ results = <<>>
    /\ intr = NoIntr
    /\ NameIdle
    /\ ExtIdle

\* processor.copy_timelapses(): every timelapse whose name the target
\* directory does not hold is copied; then processor.compress(maxnum) is
\* entered.
MainCopyTimelapses ==
    /\ mainpc = "construct"
    /\ scanpc = "done"
    /\ LET missing == { timelapses[k] : k \in 1..Len(timelapses) } \ targetTl
       IN  /\ tlCopied' = missing
           /\ targetTl' = targetTl \cup missing
    /\ mainpc' = "compress"
    /\ prog' = "compress"
    /\ pc' = "loop"
    /\ UNCHANGED <<indices, data, maxnum, targetdir, i, new_file, opened, exc,
                   targetdir0, startDir, started, invoked, results, intr>>
    /\ UNCHANGED <<srcHasTxt, srcData, targetTxt, compressInvoked>>
    /\ UNCHANGED <<nameVars, extVars, scanVars, parseVars>>

\* A copy made whether or not the target directory holds the file.
copy_extract_txt_always(t) == "copy"

\* if not os.path.exists(target_extract_txt): shutil.copy(extract_txt, self.targetdir)
copy_extract_txt(t) == IF t = "absent" THEN "copy" ELSE t

\* compress has returned; processor.extract(maxnum) opens extract.txt. Without
\* the file open() raises FileNotFoundError, which main() catches. With it the
\* lines are read, extract.txt is copied to the target directory unless a file
\* of that name is there, and the job loop is entered with fresh locals.
MainExtractOpen ==
    /\ mainpc = "compress"
    /\ prog = "compress"
    /\ pc = "done"
    /\ IF ~srcHasTxt
       THEN /\ mainpc' = IF main_catches("FileNotFoundError") THEN "returned" ELSE "failed"
            /\ exc' = IF main_catches("FileNotFoundError") THEN exc ELSE "FileNotFoundError"
            /\ UNCHANGED <<prog, data, pc, i, new_file, opened, startDir, started,
                           invoked, results, intr, targetTxt, compressInvoked, lineform>>
       ELSE /\ mainpc' = "extract"
            /\ data' = srcData
            /\ lineform' = [k \in 1..Len(srcData) |-> "ok"]
            /\ targetTxt' = copy_extract_txt(targetTxt)
            /\ compressInvoked' = invoked
            /\ prog' = "extract"
            /\ pc' = "loop"
            /\ i' = 0
            /\ new_file' = NoFile
            /\ opened' = FALSE
            /\ startDir' = <<>>
            /\ started' = <<>>
            /\ invoked' = <<>>
            /\ results' = <<>>
            /\ intr' = NoIntr
            /\ UNCHANGED exc
    /\ UNCHANGED <<indices, maxnum, targetdir, targetdir0>>
    /\ UNCHANGED <<srcHasTxt, srcData, targetTl, tlCopied>>
    /\ UNCHANGED <<nameVars, extVars, scanVars>>

MainNext ==
    \/ ScanDirMissing
    \/ ScanEntry
    \/ ScanEnd
    \/ MainCopyTimelapses
    \/ CompressLoop
    \/ CompressStart
    \/ CompressCheck
    \/ CompressLogStderr
    \/ MainExtractOpen
    \/ ExtractLoop
    \/ ExtractStart
    \/ ExtractCheck
    \/ ExtractLogStderr
    \/ TranscoderOpensOutput
    \/ TranscoderExits
    \/ InterruptPropagates
    \/ RecprocInterrupt

MainSpec == MainInit /\ [][MainNext]_vars

\* main() has returned to its caller.
MainReturned ==
    \/ mainpc = "returned"
    \/ mainpc = "extract" /\ (pc = "done" \/ (pc = "raised" /\ main_catches(exc)))

\* An exception has left main().
MainFailed ==
    \/ mainpc = "failed"
    \/ mainpc = "construct" /\ scanpc = "raised"
    \/ mainpc = "compress" /\ pc = "raised"
    \/ mainpc = "extract" /\ pc = "raised" /\ ~main_catches(exc)

\* ---- C11
\* C11: a run on a source directory without extract.txt, not interrupted, ends
\* normally (no exception reaches the caller) after the compression phase:
\* compress has returned and, when no cap was given, every recording whose
\* output was missing was given to the transcoder; nothing of the extraction
\* happened: no clip was written and extract.txt was not copied.
C11_NoDirectiveFileSkipsExtraction ==
    (/\ mainpc # "idle"
     /\ srcExists
     /\ ~srcHasTxt
     /\ MainReturned \/ MainFailed
     /\ ~Interrupted)
        => /\ MainReturned
           /\ prog = "compress" /\ pc = "done"
           /\ maxnum = 0 =>
                \A j \in 0..(num - 1) :
                    /\ j \in StartedSet
                    /\ targetdir0[CompressOut(j + 1)] = "absent" => j \in InvokedSet
           /\ compressInvoked = <<>>
           /\ targetTxt # "copy"
           /\ \A f \in DOMAIN targetdir : f[1] = "clips" => targetdir[f] = targetdir0[f]

\* ---- C12
\* C12: on a source directory that does not exist the scan fails with
\* FileNotFoundError before anything else is done: nothing was scanned, no
\* timelapse was copied, the transcoder was never invoked and the target
\* directory is as it was.
C12_MissingSourceFailsFirst ==
    (mainpc # "idle" /\ ~srcExists) =>
        /\ mainpc = "construct"
        /\ scanpc \in {"scan", "raised"}
        /\ scanpc = "raised" => exc = "FileNotFoundError"
        /\ scanpos = 0 /\ fnames = <<>> /\ indices = <<>>
        /\ tlCopied = {}
        /\ invoked = <<>> /\ compressInvoked = <<>>
        /\ prog = "none"
        /\ targetdir = targetdir0

\* Witness of C12: the run on a missing source directory has failed.
C12_Witness ==
    /\ mainpc = "construct"
    /\ ~srcExists
    /\ scanpc = "raised"
    /\ exc = "FileNotFoundError"

\* ---- C21
\* C21: every call of compress(in_file, out_file) that returns gives its
\* caller the exit status of the transcoder as an integer, so 0 whenever the
\* transcoder succeeded.
C21_CompressReturnsExitStatus ==
    \A k \in 1..Len(returned) :
        /\ returned[k].ret.kind = "int"
        /\ returned[k].ret.val = returned[k].rc

\* ------------------------------------------------- one line of extract.txt
\* Largest number of words of a title.
MaxWords == 2

\* Words joined by single spaces.
RECURSIVE JoinWords(_)
JoinWords(ws) ==
    IF Len(ws) = 0 THEN <<>>
    ELSE IF Len(ws) = 1 THEN ws[1]
    ELSE ws[1] \o <<" ">> \o JoinWords(Tail(ws))

\* Titles: one word or several, no quote character in them.
TitleWords == UNION { [1..n -> {<<"a">>, <<"b", "c">>}] : n \in 1..MaxWords }

\* Lines 'INDEX START END TITLE' of extract.txt.
TxtLines ==
    { JoinWords(<<ix, st, en, JoinWords(ws)>>) :
        ix \in {<<"1">>, <<"2", "1">>, <<"0", "2">>},
        st \in {<<"0">>, <<"5">>},
        en \in {<<"7">>, <<"9">>},
        ws \in TitleWords }

\* Position of the first space of s, 0 when it has none.
FirstSpace(s) ==
    IF \E k \in 1..Len(s) : s[k] = " "
    THEN CHOOSE k \in 1..Len(s) : s[k] = " " /\ \A j \in 1..(k - 1) : s[j] # " "
    ELSE 0

\* csv.reader(f, delimiter=' ') on a line without quote characters: every
\* space ends a field.
RECURSIVE csv_row(_)
csv_row(s) ==
    IF FirstSpace(s) = 0 THEN <<s>>
    ELSE <<SubSeq(s, 1, FirstSpace(s) - 1)>> \o csv_row(SubSeq(s, FirstSpace(s) + 1, Len(s)))

\* with open(extract_txt, ...) as f: data = list(csv.reader(f, delimiter=' '))
ReadTxtLine ==
    /\ linepc = "read"
    /\ fields' = csv_row(txtline)
    /\ linepc' = "parse"
    /\ UNCHANGED <<txtline, parsed, new_fname>>
    /\ UNCHANGED <<execVars, nameVars, scanVars, parseVars, mainVars, retVars, wowVars>>

\* index = int(data[i][0]); start = data[i][1]; end = data[i][2];
\* title = data[i][3]
ParseTxtLine ==
    /\ linepc = "parse"
    /\ parsed' = [index |-> IntOf(fields[1]), start |-> fields[2],
                  end |-> fields[3], title |-> fields[4]]
    /\ linepc' = "name"
    /\ UNCHANGED <<txtline, fields, new_fname>>
    /\ UNCHANGED <<execVars, nameVars, scanVars, parseVars, mainVars, retVars, wowVars>>

\* 'clips_%s_%s.mov' % (fullindex_str, title) with the characters of the title.
ClipFileChars(index, title, w) ==
    <<"c", "l", "i", "p", "s", "_">> \o ZeroPadded(index, w) \o <<"_">> \o title \o Mov

\* new_fname = 'clips_%s_%s.mov' % (fullindex_str, title), for the recording
\* whose name starts with the index as the line writes it.
NameTxtLine ==
    /\ linepc = "name"
    /\ new_fname' = ClipFileChars(parsed.index, parsed.title, Len(fields[1]))
    /\ linepc' = "done"
    /\ UNCHANGED <<txtline, fields, parsed>>
    /\ UNCHANGED <<execVars, nameVars, scanVars, parseVars, mainVars, retVars, wowVars>>

LineNext ==
    \/ ReadTxtLine
    \/ ParseTxtLine
    \/ NameTxtLine

\* A well-formed line of extract.txt is about to be read.
LineInit ==
    /\ ExecIdle
    /\ NameIdle
    /\ ScanIdle
    /\ MainIdle
    /\ WowIdle
    /\ lineform = <<>>
    /\ returned = <<>>
    /\ txtline \in TxtLines
    /\ fields = <<>>
    /\ parsed = <<>>
    /\ new_fname = <<>>
    /\ linepc = "read"

LineSpec == LineInit /\ [][LineNext]_vars

\* ---- C22
\* What follows the n-th space of s.
RECURSIVE AfterSpaces(_, _)
AfterSpaces(s, n) ==
    IF n = 0 \/ FirstSpace(s) = 0 THEN s
    ELSE AfterSpaces(SubSeq(s, FirstSpace(s) + 1, Len(s)), n - 1)

\* C22: the first three fields of a line are its index, start and end, and
\* the title, as it is used in the output name, is all that follows the third
\* space, spaces included.
C22_TitleIsRestOfLine ==
    linepc = "done" =>
        /\ parsed.title = AfterSpaces(txtline, 3)
        /\ \E k \in 1..Len(new_fname) :
              /\ new_fname[k] = "_"
              /\ SubSeq(new_fname, k + 1, Len(new_fname)) = AfterSpaces(txtline, 3) \o Mov

\* ---- C23
\* Positions in the scanned list of the recordings of index x.
RecordingsOf(x) == { k \in 1..Len(indices) : indices[k] = x }

\* C23: the input of every extract invocation is the first recording, in scan
\* order, of the index its directive names, also when several recordings
\* share that index, and a directive is given to the transcoder at most once;
\* in a run that ends without interrupt every directive that was reached,
\* resolves and found its output missing has been invoked.
C23_FirstRecordingOfIndex ==
    prog = "extract" =>
        /\ \A k \in 1..Len(invoked) :
              /\ invoked[k].input \in RecordingsOf(data[invoked[k].job + 1].index)
              /\ \A r \in RecordingsOf(data[invoked[k].job + 1].index) :
                    invoked[k].input <= r
        /\ \A a \in 1..Len(invoked) : \A b \in 1..Len(invoked) :
              a # b => invoked[a].job # invoked[b].job
        /\ (pc = "done" /\ ~Interrupted) =>
              \A j \in 0..(Len(startDir) - 1) :
                  (RecordingsOf(data[j + 1].index) # {}
                   /\ DirAtStartOf(j)[OutOf(j)] = "absent") => j \in InvokedSet

\* Witness of C23: an extract run has ended after an invocation for a
\* directive whose index two recordings share.
C23_Witness ==
    /\ prog = "extract"
    /\ pc = "done"
    /\ ~Interrupted
    /\ \E k \in 1..Len(invoked) :
          Cardinality(RecordingsOf(data[invoked[k].job + 1].index)) >= 2

\* ---- C24
\* Transcoder processes alive: started, not yet exited and not killed by the
\* interrupt of the call that waits for them.
Running == Len(invoked) - Len(results) - (IF intr.at = "run" THEN 1 ELSE 0)

\* C24: at most one transcoder process is alive at any time and the executor
\* is then waiting for it; an invocation starts only when every earlier one
\* has returned; the jobs (for extract: the lines of extract.txt) are invoked
\* in increasing order.
C24_JobsRunOneAtATime ==
    /\ [](/\ Running \in {0, 1}
          /\ Running = 1 => pc = "run"
          /\ \A a \in 1..Len(invoked) : \A b \in 1..Len(invoked) :
                a < b => invoked[a].job < invoked[b].job)
    /\ [][invoked' # invoked =>
            /\ Running = 0
            /\ Len(invoked') = Len(invoked) + 1
            /\ Len(results) = Len(invoked)]_vars

\* Witness of C24: the second job of an extract run is with the transcoder
\* after the first one has returned.
C24_Witness ==
    /\ prog = "extract"
    /\ pc = "run"
    /\ Len(invoked) = 2
    /\ Len(results) = 1

compress_progress(k) == k + 1

\* extract: logging.info('... [%d/%d] ----', now, title, i+1, maxnum)
extract_progress(k) == k + 1

\* compress_all: info = f'Start compressing "..." at {now} ({i}/{maxnum})...'
compress_all_progress(k) == k

\* The progress counter the "starting" line of program p prints for the loop
\* index k.
progress_counter(p, k) ==
    CASE p = "compress" -> compress_progress(k)
      [] p = "extract" -> extract_progress(k)
      [] p = "compress_all" -> compress_all_progress(k)

\* The total the same line prints: the local maxnum after its default of 0
\* has been replaced.
progress_total(p) ==
    CASE p = "compress" -> CompressMaxnum
      [] p = "extract" -> ExtractMaxnum
      [] p = "compress_all" -> CompressAllMaxnum

\* C27: the first "starting" line of a run prints the counter 1, and every
\* such line prints a counter c with 1 <= c <= total.
C27_ProgressCounterInRange ==
    /\ Len(started) > 0 => progress_counter(prog, started[1]) = 1
    /\ \A k \in 1..Len(started) :
          /\ 1 <= progress_counter(prog, started[k])
          /\ progress_counter(prog, started[k]) <= progress_total(prog)

\* ---- C28
\* C28: when RecordProcessor is constructed on an existing source directory
\* without any recording, the constructor returns with an empty recording
\* list (num = 0) and raises nothing.
C28_EmptyDirectoryConstructs ==
    (/\ scanner = "RecordProcessor"
     /\ srcExists
     /\ DirRecordings = {}
     /\ scanpc \in {"done", "raised"})
        => /\ scanpc = "done"
           /\ fnames = <<>>
           /\ num = 0

\* ------------------------------------------------------------ settings sync
\* zypys/wow/sync.py ("sync") and zypys/wow/sync_old.py ("sync_old").

\* Largest modification time of a settings directory or of the backup archive.
MaxMtime == 2

\* dirs = ["Interface", "WTF"]
Dirs == {"Interface", "WTF"}

\* The answers input() may return to the [Y/n] prompt: the three that confirm,
\* the two that decline, and one that is none of them.
Confirm == {"", "y", "Y"}
Decline == {"n", "N"}
Answers == Confirm \cup Decline \cup {"x"}

\* The answers to "Then what should I do instead?".
InsteadAnswers == {"b", "B", "r", "R", "n"}

SyncFrame ==
    UNCHANGED <<execVars, nameVars, scanVars, parseVars, mainVars, retVars,
                lineVars, keyVars>>

SetMax(S) == CHOOSE x \in S : \A y \in S : y <= x

\* get_mtime(p): the newest modification time under p, 0 when p does not exist.
get_mtime(d) == IF gameDirs[d] # "absent" THEN dirMtime[d] ELSE 0

\* sync_old: subdir_modified_time(d) = _modified_time(subdir) if subdir.is_dir()
\* else 0.
subdir_modified_time(d) == IF gameDirs[d] # "absent" THEN dirMtime[d] ELSE 0

\* game_mtime = max(map(lambda d: get_mtime(game_path.joinpath(d)), dirs)), and
\* modified_time(game_path, dirs) of sync_old.
game_mtime ==
    IF syncProg = "sync"
    THEN SetMax({get_mtime(d) : d \in Dirs})
    ELSE SetMax({subdir_modified_time(d) : d \in Dirs})

\* if game_mtime > backup_mtime: "backup"; elif <: "restore"; else "do nothing"
decide(g, b) ==
    IF g > b THEN "backup"
    ELSE IF g < b THEN "restore"
    ELSE "do nothing"

\* any(map(lambda d: game_path.joinpath(d).exists, dirs)): the lambda gives the
\* bound method itself, which is true, so any(...) is true for a non-empty dirs.
any_dir_exists == Dirs # {}

\* sync up to its first prompt.  Without the game path it returns 1.  sync.py
\* takes "backup" as the default action when there is no backup archive and
\* asks like in every other case; sync_old.py sets action = "backup" there and
\* goes on to perform it without a prompt.
SyncStart ==
    /\ syncpc = "start"
    /\ IF ~gameExists
       THEN /\ syncret' = 1
            /\ syncpc' = "returned"
            /\ UNCHANGED <<default_action, action, proposed>>
       ELSE IF backupAt = "absent"
            THEN IF syncProg = "sync_old"
                 THEN /\ action' = "backup"
                      /\ syncpc' = "act"
                      /\ UNCHANGED <<default_action, proposed, syncret>>
                 ELSE /\ default_action' = "backup"
                      /\ proposed' = Append(proposed, "backup")
                      /\ syncpc' = "ask"
                      /\ UNCHANGED <<action, syncret>>
            ELSE /\ default_action' = decide(game_mtime, backupMtime)
                 /\ proposed' = Append(proposed, decide(game_mtime, backupMtime))
                 /\ syncpc' = "ask"
                 /\ UNCHANGED <<action, syncret>>
    /\ UNCHANGED <<syncProg, gameExists, gameDirs, dirMtime, backupAt, backupMtime,
                   backupOld, safety, has7z, answer, executed, settings0>>
    /\ SyncFrame

\* answer = input(...); while answer not in ["", "y", "Y", "n", "N"]: ask again
\* if answer in ["", "y", "Y"]: action = default_action
SyncAsk ==
    /\ syncpc = "ask"
    /\ \E a \in Answers :
          /\ answer' = a
          /\ IF a \in Confirm
             THEN /\ action' = default_action
                  /\ syncpc' = "act"
             ELSE IF a \in Decline
                  THEN /\ syncpc' = "instead"
                       /\ UNCHANGED action
                  ELSE /\ syncpc' = "ask"
                       /\ UNCHANGED action
    /\ UNCHANGED <<syncProg, gameExists, gameDirs, dirMtime, backupAt, backupMtime,
                   backupOld, safety, has7z, default_action, proposed, executed,
                   syncret, settings0>>
    /\ SyncFrame

\* answer = input("Then what should I do instead? ...")
SyncInstead ==
    /\ syncpc = "instead"
    /\ \E a \in InsteadAnswers :
          /\ answer' = a
          /\ action' = IF a \in {"b", "B"} THEN "backup"
                       ELSE IF a \in {"r", "R"} THEN "restore"
                       ELSE "do nothing"
    /\ syncpc' = "act"
    /\ UNCHANGED <<syncProg, gameExists, gameDirs, dirMtime, backupAt, backupMtime,
                   backupOld, safety, has7z, default_action, proposed, executed,
                   syncret, settings0>>
    /\ SyncFrame

\* fn = action_dict.get(action, do_nothing); fn(game_path, dirs, backup_path)
\* backup first renames an existing backup archive to <stem>_old<suffix>;
\* restore first unlinks <stem>_old<suffix> inside the game path.
SyncAct ==
    /\ syncpc = "act"
    /\ executed' = Append(executed, action)
    /\ CASE action = "backup" ->
              /\ IF backupAt # "absent"
                 THEN /\ backupOld' = backupAt
                      /\ backupAt' = "absent"
                 ELSE UNCHANGED <<backupOld, backupAt>>
              /\ syncpc' = "backup_compress"
              /\ UNCHANGED <<safety, syncret>>
         [] action = "restore" ->
              /\ IF any_dir_exists
                 THEN /\ safety' = "absent"
                      /\ syncpc' = "restore_compress"
                 ELSE /\ syncpc' = "restore_extract"
                      /\ UNCHANGED safety
              /\ UNCHANGED <<backupOld, backupAt, syncret>>
         [] OTHER ->
              /\ syncret' = 0
              /\ syncpc' = "returned"
              /\ UNCHANGED <<backupOld, backupAt, safety>>
    /\ UNCHANGED <<syncProg, gameExists, gameDirs, dirMtime, backupMtime, has7z,
                   default_action, answer, action, proposed, settings0>>
    /\ SyncFrame

\* backup: compress(game_path, dirs, backup_path).  sync.py runs 7z through
\* run_cmd, which returns 2 without running anything when 7z is not found and
\* the exit status otherwise; compress drops that value.  sync_old.py writes a
\* zip file: make_archive sums the sizes over the same iterator it then zips,
\* so no entry is written; opening the archive may raise.
SyncBackupCompress ==
    /\ syncpc = "backup_compress"
    /\ IF syncProg = "sync"
       THEN /\ \E rc \in {0, 2} :
                  IF has7z /\ rc = 0
                  THEN /\ backupAt' = "new"
                       /\ backupMtime' = MaxMtime + 1
                  ELSE UNCHANGED <<backupAt, backupMtime>>
            /\ syncret' = 0
            /\ syncpc' = "returned"
       ELSE \E ok \in BOOLEAN :
               IF ok
               THEN /\ backupAt' = "empty"
                    /\ backupMtime' = MaxMtime + 1
                    /\ syncret' = 0
                    /\ syncpc' = "returned"
               ELSE /\ syncpc' = "raised"
                    /\ UNCHANGED <<backupAt, backupMtime, syncret>>
    /\ UNCHANGED <<syncProg, gameExists, gameDirs, dirMtime, backupOld, safety,
                   has7z, default_action, answer, action, proposed, executed,
                   settings0>>
    /\ SyncFrame

\* restore: dirs = list(filter(... exists(), dirs));
\* compress(game_path, dirs, new_path): the archive of the settings in place.
\* The value run_cmd returns is dropped, so restore goes on to the removal
\* whether or not the archive was made.
SyncRestoreCompress ==
    /\ syncpc = "restore_compress"
    /\ IF syncProg = "sync"
       THEN /\ \E rc \in {0, 2} :
                  IF has7z /\ rc = 0
                  THEN safety' = IF \E d \in Dirs : gameDirs[d] = "prev"
                                 THEN "prev" ELSE "empty"
                  ELSE UNCHANGED safety
            /\ syncpc' = "restore_rmtree"
       ELSE \E ok \in BOOLEAN :
               IF ok
               THEN /\ safety' = "empty"
                    /\ syncpc' = "restore_rmtree"
               ELSE /\ syncpc' = "raised"
                    /\ UNCHANGED safety
    /\ UNCHANGED <<syncProg, gameExists, gameDirs, dirMtime, backupAt, backupMtime,
                   backupOld, has7z, default_action, answer, action, proposed,
                   executed, syncret, settings0>>
    /\ SyncFrame

\* for d in dirs: shutil.rmtree(game_path.joinpath(d), ignore_errors=True)
SyncRestoreRmtree ==
    /\ syncpc = "restore_rmtree"
    /\ gameDirs' = [d \in Dirs |-> "absent"]
    /\ syncpc' = "restore_extract"
    /\ UNCHANGED <<syncProg, gameExists, dirMtime, backupAt, backupMtime, backupOld,
                   safety, has7z, default_action, answer, action, proposed,
                   executed, syncret, settings0>>
    /\ SyncFrame

\* extract(backup_path, game_path): 7z x in sync.py, ZipFile.extractall in
\* sync_old.py (which raises when the archive cannot be opened).
SyncRestoreExtract ==
    /\ syncpc = "restore_extract"
    /\ IF syncProg = "sync"
       THEN /\ \E rc \in {0, 2} :
                  IF has7z /\ rc = 0 /\ backupAt = "cloud"
                  THEN gameDirs' = [d \in Dirs |-> "restored"]
                  ELSE UNCHANGED gameDirs
            /\ syncret' = 0
            /\ syncpc' = "returned"
       ELSE \E ok \in BOOLEAN :
               IF ok /\ backupAt = "cloud"
               THEN /\ gameDirs' = [d \in Dirs |-> "restored"]
                    /\ syncret' = 0
                    /\ syncpc' = "returned"
               ELSE /\ syncpc' = "raised"
                    /\ UNCHANGED <<gameDirs, syncret>>
    /\ UNCHANGED <<syncProg, gameExists, dirMtime, backupAt, backupMtime, backupOld,
                   safety, has7z, default_action, answer, action, proposed,
                   executed, settings0>>
    /\ SyncFrame

SyncNext ==
    \/ SyncStart
    \/ SyncAsk
    \/ SyncInstead
    \/ SyncAct
    \/ SyncBackupCompress
    \/ SyncRestoreCompress
    \/ SyncRestoreRmtree
    \/ SyncRestoreExtract

\* sync(game_path, dirs, backup_path) is called: the game path exists or not,
\* each settings directory exists (with a modification time) or not, a backup
\* archive exists (with a modification time) or not, 7z is installed or not.
SyncInit ==
    /\ ExecIdle
    /\ NameIdle
    /\ ScanIdle
    /\ MainIdle
    /\ KeyIdle
    /\ LineIdle
    /\ lineform = <<>>
    /\ returned = <<>>
    /\ syncProg \in {"sync", "sync_old"}
    /\ syncpc = "start"
    /\ gameExists \in BOOLEAN
    /\ gameDirs \in [Dirs -> {"absent", "prev"}]
    /\ ~gameExists => \A d \in Dirs : gameDirs[d] = "absent"
    /\ dirMtime \in [Dirs -> 0..MaxMtime]
    /\ \A d \in Dirs : dirMtime[d] = 0 <=> gameDirs[d] = "absent"
    /\ backupAt \in {"absent", "cloud"}
    /\ backupMtime \in 0..MaxMtime
    /\ backupMtime = 0 <=> backupAt = "absent"
    /\ backupOld = "absent"
    /\ safety \in {"absent", "stale"}
    /\ has7z \in BOOLEAN
    /\ default_action = "none"
    /\ answer = "unasked"
    /\ action = "none"
    /\ proposed = <<>>
    /\ executed = <<>>
    /\ syncret = -1
    /\ settings0 = {d \in Dirs : gameDirs[d] = "prev"}

SyncSpec == SyncInit /\ [][SyncNext]_vars

\* ---- C26
\* The newest modification time under the settings directories.
NewestSettings == SetMax({dirMtime[d] : d \in Dirs})

\* The action the prompt is to show for the files sync found.
ExpectedProposal ==
    IF backupAt = "absent" \/ NewestSettings > backupMtime THEN "backup"
    ELSE IF backupMtime > NewestSettings THEN "restore"
    ELSE "do nothing"

\* C26: sync shows 'backup' in its prompt when no backup archive exists or the
\* settings are newer than it, 'restore' when the archive is newer and
\* 'do nothing' when both are equally old; after the answer "", "y" or "Y"
\* exactly the action shown is executed; and without the game path nothing is
\* executed and 1 is returned.
C26_SyncProposesByMtime ==
    /\ syncpc \in {"ask", "instead", "act"}
          => /\ Len(proposed) = 1
             /\ proposed[1] = ExpectedProposal
    /\ (answer \in Confirm /\ syncpc = "act")
          => /\ Len(proposed) = 1
             /\ action = proposed[1]
             /\ executed = <<>>
    /\ (answer \in Confirm /\ syncpc \notin {"ask", "act"})
          => /\ Len(proposed) = 1
             /\ executed = <<proposed[1]>>
    /\ (syncProg # "none" /\ ~gameExists /\ syncpc # "start")
          => /\ syncpc = "returned"
             /\ syncret = 1
             /\ executed = <<>>

\* ---- C29
\* C29: once restore of sync.py has passed its removal of the settings
\* directories, and when it has returned, every directory that held settings
\* before still holds them or the archive <stem>_old<suffix> in the game path
\* holds them: the removal happens only after that archive has been made.
C29_RestoreKeepsPreviousSettings ==
    (/\ syncProg = "sync"
     /\ executed = <<"restore">>
     /\ syncpc \in {"restore_extract", "returned"})
        => \A d \in settings0 : gameDirs[d] = "prev" \/ safety = "prev"

\* ------------------------------------------------------------- key presser
\* zypys/wow/afk.py ("afk": PresserThread and the listener of start_listening)
\* and zypys/wow/scroller.py ("scroller": ScrollerThread and its listener).
\* The presser thread and the listener callbacks run concurrently; a step of
\* one may come between any two statements of the other.

\* Number of windows that may be in the foreground.
MaxWindows == 2
\* Largest number of posted messages that are recorded.
MaxPosts == 6

HotKeys == {"f6", "f7", "f8"}

\* COMBINATIONS, in the order on_press walks it.
COMBINATIONS ==
    << [key |-> "f7", action |-> "alt_g"],
       [key |-> "f8", action |-> "g"],
       [key |-> "f6", action |-> "quit"] >>

\* Mode.PAUSE in afk.py, the empty state in scroller.py.
Paused(a) == IF a = "afk" THEN "PAUSE" ELSE ""

\* The mode a combination turns on: Mode.PRESS_ALT_G / Mode.PRESS_G in afk.py,
\* "mode1" / "mode2" in scroller.py.
ModeFor(a, act) ==
    IF a = "afk"
    THEN IF act = "alt_g" THEN "PRESS_ALT_G" ELSE "PRESS_G"
    ELSE IF act = "alt_g" THEN "mode1" ELSE "mode2"

\* The messages send_g and send_alt_g post, in order.
Script(s) ==
    IF s = "g"
    THEN << [msg |-> "WM_KEYDOWN", vk |-> "G"], [msg |-> "WM_KEYUP", vk |-> "G"] >>
    ELSE << [msg |-> "WM_KEYDOWN", vk |-> "ALT"], [msg |-> "WM_KEYDOWN", vk |-> "G"],
            [msg |-> "WM_KEYUP", vk |-> "G"], [msg |-> "WM_KEYUP", vk |-> "ALT"] >>

\* dispatch(action) on the thread fields st.  "quit" sets stop and ends the
\* listener (StopException in afk.py, return False in scroller.py); a mode
\* toggles on the window already used and is taken over on a new one.
dispatch(st, act) ==
    IF ~st.listening THEN st
    ELSE IF act = "quit"
         THEN [st EXCEPT !.stop = TRUE, !.listening = FALSE]
         ELSE IF fg = st.hwnd
              THEN [st EXCEPT !.mode = IF st.mode # Paused(app)
                                       THEN Paused(app)
                                       ELSE ModeFor(app, act)]
              ELSE [st EXCEPT !.hwnd = fg, !.mode = ModeFor(app, act)]

\* for c in COMBINATIONS: if keys.issubset(pressed): dispatch(c["action"])
RECURSIVE on_press(_, _, _)
on_press(st, keys, n) ==
    IF n > Len(COMBINATIONS) THEN st
    ELSE on_press(IF COMBINATIONS[n].key \in keys
                  THEN dispatch(st, COMBINATIONS[n].action)
                  ELSE st,
                  keys, n + 1)

KeyFrame ==
    UNCHANGED <<execVars, nameVars, scanVars, parseVars, mainVars, retVars,
                lineVars, syncVars>>

\* The listener thread: a key goes down (pynput repeats on_press while a key
\* is held).
OnPress ==
    /\ listening
    /\ \E key \in HotKeys :
          LET st == on_press([mode |-> mode, hwnd |-> hwnd, stop |-> stop,
                              listening |-> TRUE],
                             pressed \cup {key}, 1)
          IN  /\ pressed' = pressed \cup {key}
              /\ mode' = st.mode
              /\ hwnd' = st.hwnd
              /\ stop' = st.stop
              /\ listening' = st.listening
    /\ UNCHANGED <<app, ppc, fg, posts>>
    /\ KeyFrame

\* on_release(key): if key in pressed: pressed.remove(key)
OnRelease ==
    /\ listening
    /\ \E key \in pressed : pressed' = pressed \ {key}
    /\ UNCHANGED <<app, mode, hwnd, stop, ppc, listening, fg, posts>>
    /\ KeyFrame

\* The user brings another window to the foreground.
FocusChange ==
    /\ \E w \in 1..MaxWindows : w # fg /\ fg' = w
    /\ UNCHANGED <<app, mode, hwnd, stop, ppc, pressed, listening, posts>>
    /\ KeyFrame

\* run: while True: if self.stop: break (return in scroller.py)
PresserCheck ==
    /\ ppc.at = "check"
    /\ ppc' = [at |-> IF stop THEN "exited" ELSE "sleep", k |-> 0]
    /\ UNCHANGED <<app, mode, hwnd, stop, pressed, listening, fg, posts>>
    /\ KeyFrame

\* time.sleep(sleep_time): at least 1.0 s in afk.py, 0.7 s in scroller.py.
PresserSleep ==
    /\ ppc.at = "sleep"
    /\ Len(posts) + 4 <= MaxPosts
    /\ ppc' = [at |-> "act", k |-> 0]
    /\ UNCHANGED <<app, mode, hwnd, stop, pressed, listening, fg, posts>>
    /\ KeyFrame

\* self.act(): afk.py sends for PRESS_G / PRESS_ALT_G when self.hwnd is set;
\* scroller.py acts when self.state is set and self.hWnd is not None.
PresserAct ==
    /\ ppc.at = "act"
    /\ ppc' = IF mode \in {"PRESS_G", "mode2"} /\ hwnd # 0
              THEN [at |-> "g", k |-> 0]
              ELSE IF mode \in {"PRESS_ALT_G", "mode1"} /\ hwnd # 0
                   THEN [at |-> "alt_g", k |-> 0]
                   ELSE [at |-> "check", k |-> 0]
    /\ UNCHANGED <<app, mode, hwnd, stop, pressed, listening, fg, posts>>
    /\ KeyFrame

\* win32api.PostMessage(self.hwnd, msg, vk, 0): the next message of send_g or
\* send_alt_g.  When PostMessage raises, act of afk.py pauses and forgets the
\* window; ScrollerThread has no handler and ends.
PresserPost ==
    /\ ppc.at \in {"g", "alt_g"}
    /\ \E ok \in BOOLEAN :
          IF ok
          THEN /\ posts' = Append(posts, [msg |-> Script(ppc.at)[ppc.k + 1].msg,
                                          vk |-> Script(ppc.at)[ppc.k + 1].vk,
                                          hwnd |-> hwnd,
                                          stopped |-> stop])
               /\ ppc' = IF ppc.k + 1 = Len(Script(ppc.at))
                         THEN [at |-> "check", k |-> 0]
                         ELSE [ppc EXCEPT !.k = ppc.k + 1]
               /\ UNCHANGED <<mode, hwnd>>
          ELSE IF app = "afk"
               THEN /\ mode' = "PAUSE"
                    /\ hwnd' = 0
                    /\ ppc' = [at |-> "check", k |-> 0]
                    /\ UNCHANGED posts
               ELSE /\ ppc' = [at |-> "dead", k |-> 0]
                    /\ UNCHANGED <<mode, hwnd, posts>>
    /\ UNCHANGED <<app, stop, pressed, listening, fg>>
    /\ KeyFrame

KeyNext ==
    \/ OnPress
    \/ OnRelease
    \/ FocusChange
    \/ PresserCheck
    \/ PresserSleep
    \/ PresserAct
    \/ PresserPost

\* start_listening(): the thread is started paused and without a window, then
\* the listener runs.
KeyInit ==
    /\ ExecIdle
    /\ NameIdle
    /\ ScanIdle
    /\ MainIdle
    /\ SyncIdle
    /\ LineIdle
    /\ lineform = <<>>
    /\ returned = <<>>
    /\ app \in {"afk", "scroller"}
    /\ mode = Paused(app)
    /\ hwnd = 0
    /\ stop = FALSE
    /\ ppc = [at |-> "check", k |-> 0]
    /\ pressed = {}
    /\ listening = TRUE
    /\ fg \in 1..MaxWindows
    /\ posts = <<>>

KeySpec == KeyInit /\ [][KeyNext]_vars

\* ---- C30
\* C30: no key message is posted to a window after the listener has set stop.
C30_NoPostAfterStop ==
    \A n \in 1..Len(posts) : ~posts[n].stopped

====
